---- MODULE Spec2Model ----
(***************************************************************************)
(* A model of the operator abstraction library (nnsmith/abstract/op.py)    *)
(* and of the coverage summariser (experiments/viz_merged_cov.py).         *)
(*                                                                         *)
(* Each component is a small state machine of its own: its inputs are      *)
(* drawn by its Init, its operation is one action, and it has its own      *)
(* specification (SpecGroup, SpecSkip, ...).  The variables of the other   *)
(* components stay at their idle values.                                   *)
(***************************************************************************)
EXTENDS Integers, Sequences, FiniteSets, TLC

VARIABLES
    rg_pc,      \* random_group: "call" before the call, "done" after it
    rg_n,       \* random_group: argument n
    rg_k,       \* random_group: argument k
    rg_ret,     \* random_group: the returned list of groups
    rg_err,     \* random_group: TRUE when one of its assertions failed
    in_dtypes,  \* the in_dtypes list objects, by the class whose body defines them
    _skip,      \* the classes whose own _skip attribute has been set to True
    skip_err,   \* config_skip_op: the exception the last call ended with, or "none"
    skip_cfg,   \* config_skip_op: the argument of the last call (<<>> before any)
    skip_prev,  \* config_skip_op: in_dtypes as it was when the last call began
    cov_pc,     \* cov_summerize: "call" before the call, "done" after it
    cov_data,   \* cov_summerize: the snapshots, in the order data.items() yields them
    cov_filter, \* cov_summerize: the pass_filter argument ("None" when absent)
    cov_tlimit, \* cov_summerize: the tlimit argument
    cov_ret,    \* cov_summerize: the three returned series
    bc_pc,      \* broadcast: "call" before the three calls, "done" after them
    bc_lhs,     \* broadcast: the first shape
    bc_rhs,     \* broadcast: the second shape
    bc_binary,  \* broadcast_cons_binary(lhs, rhs)
    bc_cons,    \* broadcast_cons(lhs, rhs)
    bc_to,      \* broadcast_to_cons(lhs, rhs): [err, cons]
    cz_pc,      \* concretize: "call" before the call, "done" after it
    cz_op,      \* concretize: the operator instance passed in
    cz_model,   \* concretize: the solver model, symbol -> integer
    cz_ret,     \* concretize: the instance returned
    chk_pc,     \* checked_*: "call" before the call, "done" after it
    chk_op,     \* checked_*: the instance: [inp_ranks, out_ranks, rule, last_outs]
    chk_n_in,   \* checked_*: how many input tensors the caller supplies
    chk_res,    \* checked_*: [method, kind, n]: what the call ended with
    dc_pc,      \* defensive copies: "call" before the call, "done" after it
    dc_heap,    \* defensive copies: list object number -> the shape it holds
    dc_inputs,  \* defensive copies: the caller's tensors, [shape, dtype]
    dc_before,  \* defensive copies: what the tensors held before the call
    dc_call,    \* defensive copies: [method, op, alias, kind] of the call made
    ex_pc,      \* Expand: "call" before the call, "done" after it
    ex_k,       \* Expand: expand_last_dim
    ex_n,       \* Expand: expand_n
    ex_in,      \* Expand: the input shape
    ex_out,     \* Expand: the inferred output shape
    cv_pc,      \* conv/pool inference: "call" before the call, "done" after it
    cv_op,      \* conv/pool inference: the instance's attributes
    cv_in,      \* conv/pool inference: the input shape
    cv_out,     \* conv/pool inference: the inferred output shape
    cli_pc,     \* command: the statement reached
    cli_args,   \* command: the parsed arguments
    cli_inputs, \* command: where test_inputs came from
    cli_oracle, \* command: oracle_outputs
    cli_this,   \* command: this_outputs
    cli_log,    \* command: what has been run and printed, in order
    cli_exit,   \* command: "running", "exit0" or "raised"
    lz_op,      \* lazy attributes: the instance
    lz_calls,   \* lazy attributes: calls made on it so far
    lz_method,  \* lazy attributes: the method last called
    lz_in,      \* lazy attributes: the input shape of the last call
    lz_out,     \* lazy attributes: [kind, shape, dtype, cons] of the last call
    lz_before,  \* lazy attributes: extra_attrs as the last call found it
    tv_pc,      \* TVM closure: "call" before the call, "done" after it
    tv_names,   \* TVM closure: model.output_like.keys()
    tv_output,  \* TVM closure: what the executor returns
    tv_ret,     \* TVM closure: [err, map], the mapping as its entries in order
    rq_pc,      \* conv legality: "call" before the call, "done" after it
    rq_op,      \* conv legality: the integer assignment to the attributes
    rq_in,      \* conv legality: the input shape
    rq_flops,   \* conv legality: Z3_CONS_FLOPS
    rq_cons,    \* conv legality: the constraints, each evaluated to a boolean
    rs_pc,      \* Reshape: "call" before the call, "done" after it
    rs_in,      \* Reshape: the input shape
    rs_target,  \* Reshape: target_shape
    rs_env,     \* Reshape: NNSMITH_GRES and NNSMITH_CONS_RESHAPE
    rs_ng,      \* Reshape: self.ng
    rs_src_group,\* Reshape: self.src_group
    rs_dst_group,\* Reshape: self.dst_group
    rs_cons,    \* Reshape: the constraints, each evaluated to a boolean
    sl_done,    \* Slice: the methods that have run
    sl_op,      \* Slice: start, end, step and the resolved attributes
    sl_in,      \* Slice: the input shape
    sl_cons,    \* Slice: the constraints, each evaluated to a boolean
    sl_out,     \* Slice: the inferred output shape
    sl_sel,     \* Slice: the shape the execution hook returns
    br_pc,      \* bcast ranks: "call", "deduced", "inferred"
    br_n,       \* bcast ranks: num_svars
    br_t,       \* bcast ranks: target_ndims
    br_ranks,   \* bcast ranks: the ranks bcast_rand_ndims returned
    br_shapes,  \* bcast ranks: input shapes of those ranks
    br_out,     \* bcast ranks: broadcast_shapes of them
    pl_pc,      \* Ploter: "adding", "plotted" or "AssertionError"
    pl_cov_lim, \* Ploter: self.cov_lim
    pl_cov_max, \* Ploter: self.cov_max
    pl_cov_min, \* Ploter: self.cov_min
    pl_lines,   \* Ploter: the coverage series drawn on the axes
    pl_legends, \* Ploter: self.legends
    pl_bottom,  \* Ploter: the bottom of the coverage axes, in quarters
    gm_calls,   \* Gemm: calls of checked_requires so far
    gm_in,      \* Gemm: the input shapes and their dtype
    gm_extra,   \* Gemm: extra_attrs (alpha, beta)
    gm_first,   \* Gemm: extra_attrs as first resolved
    gm_res,     \* Gemm: outcome of the last checked_requires
    gm_hook,    \* Gemm: outcome of torch()
    dt_pc,      \* dtypes: "call" before the call, "done" after it
    dt_op,      \* dtypes: the operator class
    dt_in,      \* dtypes: the dtypes of the inputs
    dt_out,     \* dtypes: the dtype of the inferred output
    pd_pc,      \* positive dims: "call" before the call, "done" after it
    pd_cls,     \* positive dims: the operator class
    pd_op,      \* positive dims: the integer assignment to the parameters
    pd_in,      \* positive dims: the input shape
    pd_cons,    \* positive dims: the constraints, each evaluated to a boolean
    pd_out      \* positive dims: the inferred output shape

rgVars == <<rg_pc, rg_n, rg_k, rg_ret, rg_err>>

skipVars == <<in_dtypes, _skip, skip_err, skip_cfg, skip_prev>>

covVars == <<cov_pc, cov_data, cov_filter, cov_tlimit, cov_ret>>

bcVars == <<bc_pc, bc_lhs, bc_rhs, bc_binary, bc_cons, bc_to>>

czVars == <<cz_pc, cz_op, cz_model, cz_ret>>

chkVars == <<chk_pc, chk_op, chk_n_in, chk_res>>

dcVars == <<dc_pc, dc_heap, dc_inputs, dc_before, dc_call>>

exVars == <<ex_pc, ex_k, ex_n, ex_in, ex_out>>

cvVars == <<cv_pc, cv_op, cv_in, cv_out>>

cliVars == <<cli_pc, cli_args, cli_inputs, cli_oracle, cli_this, cli_log, cli_exit>>

lzVars == <<lz_op, lz_calls, lz_method, lz_in, lz_out, lz_before>>

tvVars == <<tv_pc, tv_names, tv_output, tv_ret>>

rqVars == <<rq_pc, rq_op, rq_in, rq_flops, rq_cons>>

rsVars == <<rs_pc, rs_in, rs_target, rs_env, rs_ng, rs_src_group, rs_dst_group, rs_cons>>

slVars == <<sl_done, sl_op, sl_in, sl_cons, sl_out, sl_sel>>

brVars == <<br_pc, br_n, br_t, br_ranks, br_shapes, br_out>>

plVars == <<pl_pc, pl_cov_lim, pl_cov_max, pl_cov_min, pl_lines, pl_legends, pl_bottom>>

gmVars == <<gm_calls, gm_in, gm_extra, gm_first, gm_res, gm_hook>>

dtVars == <<dt_pc, dt_op, dt_in, dt_out>>

pdVars == <<pd_pc, pd_cls, pd_op, pd_in, pd_cons, pd_out>>

vars == <<rg_pc, rg_n, rg_k, rg_ret, rg_err,
          in_dtypes, _skip, skip_err, skip_cfg, skip_prev,
          cov_pc, cov_data, cov_filter, cov_tlimit, cov_ret,
          bc_pc, bc_lhs, bc_rhs, bc_binary, bc_cons, bc_to,
          cz_pc, cz_op, cz_model, cz_ret,
          chk_pc, chk_op, chk_n_in, chk_res,
          dc_pc, dc_heap, dc_inputs, dc_before, dc_call,
          ex_pc, ex_k, ex_n, ex_in, ex_out,
          cv_pc, cv_op, cv_in, cv_out,
          cli_pc, cli_args, cli_inputs, cli_oracle, cli_this, cli_log, cli_exit,
          lz_op, lz_calls, lz_method, lz_in, lz_out, lz_before,
          tv_pc, tv_names, tv_output, tv_ret,
          rq_pc, rq_op, rq_in, rq_flops, rq_cons,
          rs_pc, rs_in, rs_target, rs_env, rs_ng, rs_src_group, rs_dst_group, rs_cons,
          sl_done, sl_op, sl_in, sl_cons, sl_out, sl_sel,
          br_pc, br_n, br_t, br_ranks, br_shapes, br_out,
          pl_pc, pl_cov_lim, pl_cov_max, pl_cov_min, pl_lines, pl_legends, pl_bottom,
          gm_calls, gm_in, gm_extra, gm_first, gm_res, gm_hook,
          dt_pc, dt_op, dt_in, dt_out,
          pd_pc, pd_cls, pd_op, pd_in, pd_cons, pd_out>>

----------------------------------------------------------------------------
(* Generic helpers                                                         *)

Range(s) == {s[i] : i \in 1..Len(s)}

RECURSIVE Insert(_, _)
Insert(x, s) ==
    IF s = <<>> THEN <<x>>
    ELSE IF x <= Head(s) THEN <<x>> \o s
    ELSE <<Head(s)>> \o Insert(x, Tail(s))

\* Python's sorted() on a list of integers.
RECURSIVE sorted(_)
sorted(s) == IF s = <<>> THEN <<>> ELSE Insert(Head(s), sorted(Tail(s)))

\* All orders random.shuffle can leave list(range(n)) in.
Perms(n) ==
    {p \in [1..n -> 0..(n - 1)] : \A i, j \in 1..n : p[i] = p[j] => i = j}

----------------------------------------------------------------------------
(* random_group(n, k)                                   op.py 1802-1815    *)

MaxN == 4

\* xs = [0] + sorted(draws) + [n - k]
CutPoints(n, k, draws) == <<0>> \o sorted(draws) \o <<n - k>>

\* st and ed of group i (i counted from 0, as in the code); xs is 1-indexed.
GroupStMutant(xs, i) == xs[i + 1]
GroupSt(xs, i) == xs[i + 1] + i
GroupEd(xs, i) == xs[i + 2] + i + 1

\* the three assertions of the loop body, for group i
GroupAsserts(xs, i, n) ==
    /\ GroupSt(xs, i) < GroupEd(xs, i)
    /\ GroupEd(xs, i) <= n
    /\ GroupSt(xs, i) >= 0

\* [perm[j] for j in range(st, ed)]; perm is 1-indexed here
GroupOf(xs, i, perm) ==
    [j \in 1..(GroupEd(xs, i) - GroupSt(xs, i)) |-> perm[GroupSt(xs, i) + j]]

random_group(n, k, draws, perm) ==
    LET xs == CutPoints(n, k, draws)
    IN  [err |-> \E i \in 0..(k - 1) : ~GroupAsserts(xs, i, n),
         ret |-> IF \E i \in 0..(k - 1) : ~GroupAsserts(xs, i, n)
                 THEN <<>>
                 ELSE [g \in 1..k |-> GroupOf(xs, g - 1, perm)]]


----------------------------------------------------------------------------
(* Strings                                                                 *)
(* A string is modelled as the sequence of its lexemes: the words and the  *)
(* separators "," and ":" that config_skip_op splits on.  "Xor,Abs:int32"  *)
(* is <<"Xor", ",", "Abs", ":", "int32">>; no two words are adjacent.      *)

\* str.split(sep): the pieces between the occurrences of sep
RECURSIVE split(_, _)
split(s, sep) ==
    IF s = <<>> THEN << <<>> >>
    ELSE IF Head(s) = sep THEN << <<>> >> \o split(Tail(s), sep)
    ELSE LET r == split(Tail(s), sep)
         IN  << <<Head(s)>> \o Head(r) >> \o Tail(r)

\* the text of a piece that holds no separator: one word, or the empty string
Text(piece) == IF piece = <<>> THEN "" ELSE piece[1]

\* str.lower() on the words that hold an upper-case letter
LowerTable ==
    ("Where" :> "where") @@ ("Add" :> "add") @@ ("Sub" :> "sub") @@
    ("Mul" :> "mul") @@ ("Max" :> "max") @@ ("Min" :> "min") @@
    ("Equal" :> "equal") @@ ("Greater" :> "greater") @@ ("Less" :> "less") @@
    ("And" :> "and") @@ ("Or" :> "or") @@ ("Xor" :> "xor") @@ ("XOR" :> "xor") @@
    ("Div" :> "div") @@ ("Abs" :> "abs") @@ ("Tril" :> "tril") @@
    ("Triu" :> "triu") @@ ("Gemm" :> "gemm") @@
    ("LegacyConstant*" :> "legacyconstant*") @@ ("Tri*" :> "tri*") @@
    ("LegacyConstant0D" :> "legacyconstant0d") @@
    ("LegacyConstant1D" :> "legacyconstant1d") @@
    ("LegacyConstant2D" :> "legacyconstant2d") @@
    ("LegacyConstant3D" :> "legacyconstant3d") @@
    ("LegacyConstant4D" :> "legacyconstant4d")

lower(w) == IF w \in DOMAIN LowerTable THEN LowerTable[w] ELSE w

\* the lower-case names each wildcard pattern in use matches (fnmatch's "*")
WildcardTable ==
    ("legacyconstant*" :>
        {"legacyconstant0d", "legacyconstant1d", "legacyconstant2d",
         "legacyconstant3d", "legacyconstant4d"}) @@
    ("tri*" :> {"tril", "triu"})

\* fnmatch.fnmatch(name, pat) for lower-case name and pattern
fnmatch(name, pat) ==
    IF pat \in DOMAIN WildcardTable THEN name \in WildcardTable[pat] ELSE name = pat

----------------------------------------------------------------------------
(* Dtypes                                              nnsmith/abstract/dtype *)

DTYPE_FLOATS == <<"f32", "f64">>
DTYPE_INTS == <<"i32", "i64">>
DTYPE_NON_BOOLS == DTYPE_FLOATS \o DTYPE_INTS
DTYPE_ALL == DTYPE_NON_BOOLS \o <<"b">>

DTypeNames ==
    ("float32" :> "f32") @@ ("float64" :> "f64") @@ ("int32" :> "i32") @@
    ("int64" :> "i64") @@ ("bool" :> "b")

\* DType.from_str: a table lookup; anything that is not a dtype name has no entry
from_str_ok(x) == x \in DOMAIN DTypeNames
from_str(x) == DTypeNames[x]

----------------------------------------------------------------------------
(* The operator catalog and config_skip_op              op.py 60-66, 2539-2594 *)
(* The catalog is restricted to the operators below; they are registered   *)
(* in this order.  The LegacyConstant classes are defined without @leaf.   *)

ALL_OP_TYPES ==
    <<"Where", "Add", "Sub", "Mul", "Max", "Min", "Equal", "Greater", "Less",
      "And", "Or", "Xor", "Div", "Abs", "Tril", "Triu", "Gemm">>

LegacyConstants ==
    {"LegacyConstant0D", "LegacyConstant1D", "LegacyConstant2D",
     "LegacyConstant3D", "LegacyConstant4D"}

\* the class in whose body the in_dtypes list an operator sees is created:
\* a class made by type(name, (Base,), {...}) or without an in_dtypes line of
\* its own reads its base's list object
InDtypesOwner(op) ==
    CASE op \in {"Add", "Sub", "Mul", "Max", "Min", "Div"} -> "BcastBinaryOp1"
      [] op \in {"Equal", "Greater", "Less"} -> "Comparator"
      [] op \in {"And", "Or", "Xor"} -> "Logical"
      [] op \in {"Tril", "Triu"} -> "TriBase"
      [] OTHER -> op

InitInDtypes ==
    ("Where" :> [i \in 1..Len(DTYPE_NON_BOOLS) |->
                    <<"b", DTYPE_NON_BOOLS[i], DTYPE_NON_BOOLS[i]>>]) @@
    ("BcastBinaryOp1" :> [i \in 1..Len(DTYPE_NON_BOOLS) |->
                    <<DTYPE_NON_BOOLS[i], DTYPE_NON_BOOLS[i]>>]) @@
    ("Comparator" :> [i \in 1..Len(DTYPE_ALL) |-> <<DTYPE_ALL[i], DTYPE_ALL[i]>>]) @@
    ("Logical" :> << <<"b", "b">> >>) @@
    ("Abs" :> [i \in 1..Len(DTYPE_NON_BOOLS) |-> <<DTYPE_NON_BOOLS[i]>>]) @@
    ("TriBase" :> [i \in 1..Len(DTYPE_ALL) |-> <<DTYPE_ALL[i]>>]) @@
    ("Gemm" :> [i \in 1..Len(DTYPE_NON_BOOLS) |->
                    <<DTYPE_NON_BOOLS[i], DTYPE_NON_BOOLS[i], DTYPE_NON_BOOLS[i]>>])

\* op.in_dtypes, read through the class hierarchy
OpInDtypes(lists, op) == lists[InDtypesOwner(op)]

SKIP_FOR_BKEND ==
    ("trt" :> << <<"Xor">>,
                 <<"Equal", ":", "bool", ",", "bool">>,
                 <<"Gemm", ":", "int32", ",", "int32", ",", "int32">>,
                 <<"LegacyConstant*">> >>) @@
    ("tvm" :> <<>>) @@ ("tvm-cuda" :> <<>>) @@ ("ort" :> <<>>) @@
    ("ort-cpu" :> <<>>) @@ ("xla" :> <<>>) @@ ("tch" :> <<>>) @@ ("dummy" :> <<>>)

\* op.startswith("backend:")
IsBackendToken(op) == Len(op) >= 2 /\ op[1] = "backend" /\ op[2] = ":"

\* the first loop: the list `skip`, or the KeyError of an unknown backend
RECURSIVE ExpandSkip(_)
ExpandSkip(toks) ==
    IF toks = <<>> THEN [err |-> "none", skip |-> <<>>]
    ELSE LET op == Head(toks)
             rest == ExpandSkip(Tail(toks))
             key == SubSeq(op, 3, Len(op))
         IN  IF IsBackendToken(op)
             THEN IF Len(key) = 1 /\ key[1] \in DOMAIN SKIP_FOR_BKEND
                  THEN [rest EXCEPT !.skip = SKIP_FOR_BKEND[key[1]] \o @]
                  ELSE [err |-> "KeyError", skip |-> <<>>]
             ELSE IF rest.err = "none"
                  THEN [rest EXCEPT !.skip = <<op>> \o @]
                  ELSE rest

\* list.remove(x): drops the first element equal to x
RECURSIVE remove(_, _)
remove(l, x) ==
    IF l = <<>> THEN <<>>
    ELSE IF Head(l) = x THEN Tail(l) ELSE <<Head(l)>> \o remove(Tail(l), x)

\* the operators fnmatch.filter keeps, in catalog order
RECURSIVE filter(_, _)
filter(ops, pat) ==
    IF ops = <<>> THEN <<>>
    ELSE IF fnmatch(lower(Head(ops)), pat)
         THEN <<Head(ops)>> \o filter(Tail(ops), pat)
         ELSE filter(Tail(ops), pat)

\* The inner loop over the matched operators.  st = [lists, skipped, err];
\* comb is the loop-carried skip_comb: [kind |-> "none"], or "strs" (dtype
\* names, as split from the pattern) or "dtypes" (already converted by an
\* earlier iteration, which from_str has no entry for).
RECURSIVE SkipMatched(_, _, _)
SkipMatched(st, ops, comb) ==
    IF ops = <<>> \/ st.err # "none" THEN st
    ELSE LET op == Head(ops)
         IN  IF comb.kind = "none"
             THEN SkipMatched([st EXCEPT !.skipped = @ \cup {op}], Tail(ops), comb)
             ELSE IF comb.kind = "dtypes"
                     \/ \E i \in 1..Len(comb.val) : ~from_str_ok(comb.val[i])
                  THEN [st EXCEPT !.err = "KeyError"]
                  ELSE LET tup == [i \in 1..Len(comb.val) |-> from_str(comb.val[i])]
                       IN  IF tup \notin Range(OpInDtypes(st.lists, op))
                           THEN [st EXCEPT !.err = "AssertionError"]
                           ELSE SkipMatched(
                                  [st EXCEPT !.lists[InDtypesOwner(op)] = remove(@, tup)],
                                  Tail(ops),
                                  [kind |-> "dtypes", val |-> tup])

\* one pattern of `skip`: its name part and its optional dtype combination
PatternParts(p) ==
    IF \E i \in 1..Len(p) : p[i] = ":"
    THEN LET parts == split(p, ":")
         IN  IF Len(parts) # 2
             THEN [err |-> "ValueError"]
             ELSE [err |-> "none",
                   name |-> lower(Text(parts[1])),
                   comb |-> [kind |-> "strs",
                             val |-> [i \in 1..Len(split(parts[2], ",")) |->
                                         Text(split(parts[2], ",")[i])]]]
    ELSE [err |-> "none", name |-> lower(Text(p)), comb |-> [kind |-> "none"]]

\* the second loop
RECURSIVE SkipPatterns(_, _)
SkipPatterns(st, pats) ==
    IF pats = <<>> \/ st.err # "none" THEN st
    ELSE LET pp == PatternParts(Head(pats))
         IN  IF pp.err # "none" THEN [st EXCEPT !.err = pp.err]
             ELSE SkipPatterns(
                    SkipMatched(st, filter(ALL_OP_TYPES, pp.name), pp.comb),
                    Tail(pats))

config_skip_op(lists, skipped, skip_config) ==
    LET ex == ExpandSkip(split(skip_config, ","))
        st0 == [lists |-> lists, skipped |-> skipped, err |-> "none"]
    IN  IF ex.err # "none" THEN [st0 EXCEPT !.err = ex.err]
        ELSE SkipPatterns(st0, ex.skip)

\* The tokens a caller joins with "," into a skip configuration.
Tokens ==
    { <<"Xor">>, <<"Gemm", ":", "int32", ",", "int32", ",", "int32">>,
      <<"backend", ":", "trt">>, <<"backend", ":", "tvm">>,
      <<"Equal", ":", "bool", ",", "bool">>, <<"Abs", ":", "int32">>,
      <<"Tril", ":", "bool">>, <<"Tri*", ":", "int64">>, <<"less">>,
      <<"LegacyConstant*">>, <<"Add">>, <<"backend", ":", "cuda">> }

MaxTokens == 2

RECURSIVE Join(_)
Join(toks) ==
    IF Len(toks) = 1 THEN toks[1] ELSE toks[1] \o <<",">> \o Join(Tail(toks))

Configs == {Join(t) : t \in UNION {[1..n -> Tokens] : n \in 1..MaxTokens}}

IdleSkip ==
    /\ in_dtypes = <<>> /\ _skip = {} /\ skip_err = "none"
    /\ skip_cfg = <<>> /\ skip_prev = <<>>

----------------------------------------------------------------------------
(* cov_summerize(data, pass_filter, tlimit)        viz_merged_cov.py 69-107 *)
(* data maps a time to [n_model, merged_cov]; merged_cov maps a file name  *)
(* to its sets of covered line, branch and function ids.                   *)

MaxSnap == 2      \* snapshots in a run
MaxTick == 2      \* snapshot times are 0, 10, ..., 10 * MaxTick
MaxNModel == 3    \* n_model of a snapshot

NoCov == <<>>
CovF1 == ("f" :> [lines |-> {1}, branches |-> {}, functions |-> {}])
CovF2 == ("f" :> [lines |-> {1, 2}, branches |-> {"b1"}, functions |-> {}])
CovF3 ==
    ("f" :> [lines |-> {1, 2}, branches |-> {"b1"}, functions |-> {"fn"}]) @@
    ("src/relay/transforms/p.cc" :>
        [lines |-> {7}, branches |-> {"b2", "b3"}, functions |-> {"g"}]) @@
    ("onnxruntime/core/optimizer/q.cc" :>
        [lines |-> {3, 4, 5}, branches |-> {}, functions |-> {"h"}])

MergedCovs == {NoCov, CovF1, CovF2, CovF3}

\* tvm_pass_filter and ort_pass_filter: the substring tests, on the file
\* names in use
tvm_pass_filter(fname) == fname \in {"src/relay/transforms/p.cc"}
ort_pass_filter(fname) == fname \in {"onnxruntime/core/optimizer/q.cc"}

\* `pass_filter is not None and pass_filter(fname)`
FilteredMutant(pass_filter, fname) == FALSE
Filtered(pass_filter, fname) ==
    CASE pass_filter = "tvm_pass_filter" -> tvm_pass_filter(fname)
      [] pass_filter = "ort_pass_filter" -> ort_pass_filter(fname)
      [] OTHER -> FALSE

\* the inner loop: the sum of len(cov[fname][kind]) over the files kept
RECURSIVE CovCount(_, _, _, _)
CovCount(cov, names, kind, pass_filter) ==
    IF names = {} THEN 0
    ELSE LET fname == CHOOSE x \in names : TRUE
             here == IF Filtered(pass_filter, fname) THEN 0
                     ELSE Cardinality(cov[fname][kind])
         IN  here + CovCount(cov, names \ {fname}, kind, pass_filter)

\* model_total += n_model
ModelTotalMutant(model_total, n_model) == n_model
ModelTotal(model_total, n_model) == model_total + n_model

\* `tlimit is not None and time > tlimit`
PastLimit(tlimit, time) == tlimit.given /\ time > tlimit.val

\* the loop over data.items(), from snapshot i on
RECURSIVE CovWalk(_, _, _, _, _, _)
CovWalk(data, i, model_total, acc, pass_filter, tlimit) ==
    IF i > Len(data) THEN acc
    ELSE LET value == data[i]
             total == ModelTotal(model_total, value.n_model)
             cov == value.merged_cov
             point(kind) ==
                 <<value.time, total, CovCount(cov, DOMAIN cov, kind, pass_filter)>>
             next == [line |-> Append(acc.line, point("lines")),
                      branch |-> Append(acc.branch, point("branches")),
                      func |-> Append(acc.func, point("functions"))]
         IN  IF PastLimit(tlimit, value.time) THEN next
             ELSE CovWalk(data, i + 1, total, next, pass_filter, tlimit)

cov_summerize(data, pass_filter, tlimit) ==
    CovWalk(data, 1, 0,
            [line |-> << <<0, 0, 0>> >>,
             branch |-> << <<0, 0, 0>> >>,
             func |-> << <<0, 0, 0>> >>],
            pass_filter, tlimit)

Snapshots ==
    [time : {10 * t : t \in 0..MaxTick}, n_model : 1..MaxNModel, merged_cov : MergedCovs]

\* runs of at most MaxSnap snapshots, in increasing time
Runs ==
    {d \in UNION {[1..n -> Snapshots] : n \in 0..MaxSnap} :
        \A i \in 1..(Len(d) - 1) : d[i].time < d[i + 1].time}

TLimits ==
    {[given |-> FALSE, val |-> 0]} \cup
    {[given |-> TRUE, val |-> 10 * t] : t \in 0..MaxTick}

IdleCov ==
    /\ cov_pc = "idle" /\ cov_data = <<>> /\ cov_filter = "None"
    /\ cov_tlimit = [given |-> FALSE, val |-> 0] /\ cov_ret = <<>>

----------------------------------------------------------------------------
(* Broadcasting of concrete shapes                          op.py 125-248  *)
(* A shape is a sequence of integers; a constraint on concrete shapes is   *)
(* the literal z3.BoolVal(valid), modelled as the boolean.                 *)

MaxShapeRank == 2   \* ranks 0..MaxShapeRank
MaxDimSz == 3       \* dimensions 0..MaxDimSz

Shapes == UNION {[1..r -> 0..MaxDimSz] : r \in 0..MaxShapeRank}

\* nnsmith_eq on concrete integers
nnsmith_eq(x, y) == x = y

Maximum(S) == CHOOSE m \in S : \A x \in S : x <= m

_prepend_to(x, max_dim) == [i \in 1..(max_dim - Len(x)) |-> 1] \o x

\* Python's x[-j - 1] for a sequence x
FromEnd(x, j) == x[Len(x) - j]

\* broadcast_shapes on concrete shapes: the maximum at each aligned position
broadcast_shapes(shapes) ==
    IF Len(shapes) = 1 THEN shapes[1]
    ELSE LET max_dim == Maximum({Len(shapes[k]) : k \in 1..Len(shapes)})
         IN  [p \in 1..max_dim |->
                Maximum({_prepend_to(shapes[k], max_dim)[p] : k \in 1..Len(shapes)})]

\* broadcast_cons: cons[j + 1] is the literal of position -j - 1
broadcast_cons(shapes) ==
    LET tgt_shape == broadcast_shapes(shapes)
        max_dim == Len(tgt_shape)
    IN  [jj \in 1..max_dim |->
            \A k \in 1..Len(shapes) :
                LET s == FromEnd(_prepend_to(shapes[k], max_dim), jj - 1)
                IN  nnsmith_eq(s, FromEnd(tgt_shape, jj - 1)) \/ nnsmith_eq(s, 1)]

broadcast_cons_binary(shapes) ==
    LET tgt_shape == broadcast_shapes(shapes)
        max_dim == Len(tgt_shape)
        lhs == _prepend_to(shapes[1], max_dim)
        rhs == _prepend_to(shapes[2], max_dim)
    IN  [jj \in 1..max_dim |->
            \/ nnsmith_eq(FromEnd(lhs, jj - 1), 1)
            \/ nnsmith_eq(FromEnd(rhs, jj - 1), 1)
            \/ nnsmith_eq(FromEnd(lhs, jj - 1), FromEnd(rhs, jj - 1))]

\* the constraints of one source against the target
ToConsOf(src0, tgt) ==
    LET src == _prepend_to(src0, Len(tgt))
    IN  [i \in 1..Len(tgt) |-> nnsmith_eq(src[i], 1) \/ nnsmith_eq(src[i], tgt[i])]

\* broadcast_to_cons: the last shape is the target; a source of higher rank
\* fails ConstraintCheck.true
RECURSIVE ToConsAll(_, _)
ToConsAll(srcs, tgt) ==
    IF srcs = <<>> THEN [err |-> "none", cons |-> <<>>]
    ELSE IF Len(Head(srcs)) > Len(tgt) THEN [err |-> "ConstraintError", cons |-> <<>>]
    ELSE LET rest == ToConsAll(Tail(srcs), tgt)
         IN  IF rest.err # "none" THEN rest
             ELSE [err |-> "none", cons |-> ToConsOf(Head(srcs), tgt) \o rest.cons]

broadcast_to_cons(shapes) ==
    ToConsAll(SubSeq(shapes, 1, Len(shapes) - 1), shapes[Len(shapes)])

IdleBc ==
    /\ bc_pc = "idle" /\ bc_lhs = <<>> /\ bc_rhs = <<>> /\ bc_binary = <<>>
    /\ bc_cons = <<>> /\ bc_to = <<>>

----------------------------------------------------------------------------
(* Operator instances and concretize(op, model)      op.py 265-277, 335-375 *)
(* A constructor argument is [k |-> "int", v |-> n] or the solver symbol   *)
(* [k |-> "sym", v |-> i]; a model maps symbol numbers to integers.  A     *)
(* rank domain (a tuple of ranks in the code) is the set of its ranks.  An  *)
(* extra_attrs dictionary is the set of its entries, each one              *)
(* [key, s, n] with s the value when it is a string and n when an integer. *)

MaxVal == 2       \* the integers a model assigns and a concrete argument holds

__MIN_RANK__ == 0
__MAX_RANK__ == 5

int_from(start) == start..__MAX_RANK__
int_range(start, end) == start..end
int_all == __MIN_RANK__..__MAX_RANK__

StrAttr(key, s) == [key |-> key, s |-> s, n |-> 0]
IntAttr(key, n) == [key |-> key, s |-> "", n |-> n]

\* the Reduce family
ReduceClasses ==
    {"Squeeze", "ReduceSum", "ReduceMin", "ReduceMax", "ReduceMean", "ArgMin", "ArgMax"}

\* what cls(*values) leaves in inp_ranks, out_ranks, same_inp_dims and
\* extra_attrs, and the arguments it stores
Construct(cls, values) ==
    [cls |-> cls,
     args |-> values,
     abs_tensor |-> <<>>,
     inp_ranks |->
        CASE cls \in {"NCHWConv2d", "AvgPool2d"} -> <<{4}>>
          [] cls = "Slice" -> <<int_from(1)>>
          [] cls = "ExpandLast1" -> <<int_all>>
          [] cls = "Reshape" -> <<int_range(1, 4)>>
          [] cls = "ConstPad" -> <<int_from(Len(values) \div 2)>>
          [] cls = "Transpose" -> <<int_from(2)>>
          [] cls = "Concat2" -> <<int_from(1), int_from(1)>>
          [] cls \in ReduceClasses -> <<int_from(1)>>
          [] OTHER -> <<>>,
     out_ranks |->
        CASE cls \in {"NCHWConv2d", "AvgPool2d"} -> <<{4}>>
          [] cls = "Slice" -> <<int_from(1)>>
          [] cls = "ExpandLast1" -> <<int_all>>
          [] cls = "Reshape" -> <<{Len(values)}>>
          [] cls = "ConstPad" -> <<int_from(Len(values) \div 2)>>
          [] cls = "Transpose" -> <<int_from(2)>>
          [] cls = "Concat2" -> <<int_from(1)>>
          [] cls \in ReduceClasses -> <<int_range(0, __MAX_RANK__ - 1)>>
          [] OTHER -> <<{0}>>,
     same_inp_dims |-> (cls = "Concat2"),
     extra_attrs |-> IF cls = "ConstPad" THEN {StrAttr("type", "constant")} ELSE {}]

\* model.eval(v).as_long() for the symbolic values, the others as they are
EvalValue(v, model) == IF v.k = "sym" THEN [k |-> "int", v |-> model[v.v]] ELSE v

\* lines 370-373: the state copied from the original onto the new instance
CopyStateMutant(concrete_op, op) ==
    [concrete_op EXCEPT !.inp_ranks = op.inp_ranks,
                        !.out_ranks = op.out_ranks,
                        !.same_inp_dims = op.same_inp_dims]
CopyState(concrete_op, op) ==
    [concrete_op EXCEPT !.inp_ranks = op.inp_ranks,
                        !.out_ranks = op.out_ranks,
                        !.same_inp_dims = op.same_inp_dims,
                        !.extra_attrs = op.extra_attrs]

concretize(op, model) ==
    IF op.cls \in {"Constant", "Input"}
    THEN [op EXCEPT !.abs_tensor =
                [i \in 1..Len(op.abs_tensor) |-> EvalValue(op.abs_tensor[i], model)]]
    ELSE CopyState(
            Construct(op.cls, [i \in 1..Len(op.args) |-> EvalValue(op.args[i], model)]),
            op)

SymVal(i) == [k |-> "sym", v |-> i]
IntVal(n) == [k |-> "int", v |-> n]

\* argument lists of length n: every argument symbolic, every other one
\* symbolic, or none; the concrete ones hold c
ArgLists(n) ==
    {[i \in 1..n |-> SymVal(i)]} \cup
    {[i \in 1..n |-> IF i % 2 = 1 THEN SymVal(i) ELSE IntVal(c)] : c \in 1..MaxVal} \cup
    {[i \in 1..n |-> IntVal(c)] : c \in 1..MaxVal}

\* instances as graph construction leaves them: freshly constructed, or with
\* the attributes the first checked_* call resolves
Used(op, inp_ranks, extra_attrs) ==
    [op EXCEPT !.inp_ranks = inp_ranks, !.extra_attrs = extra_attrs]

OpInstances ==
    {Construct("NCHWConv2d", a) : a \in ArgLists(8)} \cup
    {Construct("AvgPool2d", a) : a \in ArgLists(4)} \cup
    {Construct("ExpandLast1", a) : a \in ArgLists(1)} \cup
    {Construct("Slice", a) : a \in ArgLists(3)} \cup
    {Used(Construct("Slice", a), <<int_from(1)>>,
          {IntAttr("ndims", 2), IntAttr("axis", x), StrAttr("region", "mid")}) : a \in ArgLists(3), x \in 0..1} \cup
    UNION {{Construct("Reshape", a) : a \in ArgLists(n)} : n \in 1..4} \cup
    UNION {{Construct("ConstPad", a) : a \in ArgLists(2 * n)} : n \in 1..2} \cup
    {Construct("Transpose", <<>>)} \cup
    {Used(Construct("Transpose", <<>>), <<{r}>>, {IntAttr("dim0", 0), IntAttr("dim1", r - 1)}) : r \in 2..3} \cup
    {Construct("Concat2", <<>>)} \cup
    {Used(Construct("Concat2", <<>>), <<int_from(1), int_from(1)>>, {IntAttr("axis", x)}) : x \in 0..1} \cup
    {[Construct(c, <<>>) EXCEPT !.abs_tensor = a, !.out_ranks = <<{Len(a)}>>] :
        c \in {"Constant", "Input"}, a \in ArgLists(2)}

\* the symbols an instance mentions, and the models that interpret them
SymsOf(op) ==
    {op.args[i].v : i \in {j \in 1..Len(op.args) : op.args[j].k = "sym"}} \cup
    {op.abs_tensor[i].v : i \in {j \in 1..Len(op.abs_tensor) : op.abs_tensor[j].k = "sym"}}

Models(op) == [SymsOf(op) -> 1..MaxVal]

IdleCz == cz_pc = "idle" /\ cz_op = <<>> /\ cz_model = <<>> /\ cz_ret = <<>>

----------------------------------------------------------------------------
(* checked_type_transfer and checked_requires        op.py 85-122, 290-312 *)
(* The operator's own rule (_type_transfer, _requires) is whatever the     *)
(* subclass defines: it returns a list of some length or raises.           *)

MaxIn == 3        \* input rank domains of an instance, and inputs supplied
MaxOut == 2       \* output rank domains of an instance, and outputs of a rule

\* SanityCheck.true and SanityCheck.eq pass (nnsmith/error.py); a failure
\* raises the internal-invariant error
SanityCheck_true(x) == x # <<>>
SanityCheck_eq(a, b) == a = b

InputCountOkMutant(input_shapes_len, op) == TRUE
InputCountOk(input_shapes_len, op) == SanityCheck_eq(input_shapes_len, Len(op.inp_ranks))

\* wrapper_check_shape_fn around checked_type_transfer: [op, res]
checked_type_transfer(op, n_in) ==
    IF ~SanityCheck_true(op.out_ranks) \/ ~InputCountOk(n_in, op)
    THEN [op |-> op, res |-> [method |-> "type_transfer", kind |-> "SanityError", n |-> 0]]
    ELSE IF op.rule.kind # "outs"
    THEN [op |-> op, res |-> [method |-> "type_transfer", kind |-> op.rule.kind, n |-> 0]]
    ELSE IF ~SanityCheck_eq(op.rule.n, Len(op.out_ranks))
    THEN [op |-> [op EXCEPT !.last_outs = op.rule.n],
          res |-> [method |-> "type_transfer", kind |-> "SanityError", n |-> 0]]
    ELSE [op |-> [op EXCEPT !.last_outs = op.rule.n],
          res |-> [method |-> "type_transfer", kind |-> "return", n |-> op.rule.n]]

\* wrapper_check_require_fn around checked_requires; req is what _requires
\* does: [kind |-> "outs", n |-> the number of constraints] or a raise
checked_requires(op, n_in, req) ==
    IF ~InputCountOk(n_in, op)
    THEN [method |-> "requires", kind |-> "SanityError", n |-> 0]
    ELSE IF req.kind # "outs"
    THEN [method |-> "requires", kind |-> req.kind, n |-> 0]
    ELSE [method |-> "requires", kind |-> "return", n |-> req.n]

RuleOutcomes ==
    {[kind |-> "outs", n |-> m] : m \in 0..MaxOut} \cup
    {[kind |-> "ConstraintError", n |-> 0], [kind |-> "SanityError", n |-> 0]}

IdleChk == chk_pc = "idle" /\ chk_op = <<>> /\ chk_n_in = 0 /\ chk_res = <<>>


----------------------------------------------------------------------------
(* Expand / ExpandLast1..4                            op.py 1427-1519      *)

MaxExRank == 2    \* rank of the input
MaxExDim == 4     \* its dimensions, and expand_n

\* the number of ones padded between expand_n and the input's dimensions
ExpandOnesMutant(expand_last_dim, rank) == expand_last_dim - rank
ExpandOnes(expand_last_dim, rank) == expand_last_dim - rank - 1

\* Expand._type_transfer on the shape of its one input
ExpandShape(expand_last_dim, expand_n, shape) ==
    IF expand_last_dim <= Len(shape)
    THEN [shape EXCEPT ![Len(shape) - expand_last_dim + 1] = expand_n]
    ELSE <<expand_n>> \o [i \in 1..ExpandOnes(expand_last_dim, Len(shape)) |-> 1] \o shape

\* ExpandLast1 .. ExpandLast4 fix expand_last_dim
ExpandLastK == 1..4

ExShapes == UNION {[1..r -> 1..MaxExDim] : r \in 0..MaxExRank}

IdleEx == ex_pc = "idle" /\ ex_k = 0 /\ ex_n = 0 /\ ex_in = <<>> /\ ex_out = <<>>

----------------------------------------------------------------------------
(* Defensive copies in the public entry points       op.py 98, 120         *)
(* A shape is a Python list object: dc_heap maps object numbers to the     *)
(* list's contents and a tensor is [shape |-> object number, dtype].       *)

MaxDcRank == 2    \* rank of the tensors the caller supplies
MaxDcDim == 2     \* their dimensions
MaxDcInputs == 2  \* how many the caller supplies

DcShapes == UNION {[1..r -> 1..MaxDcDim] : r \in 0..MaxDcRank}

\* what the caller can observe of its tensors: shape contents and dtype
TensorView(heap, inputs) ==
    [i \in 1..Len(inputs) |-> [shape |-> heap[inputs[i].shape], dtype |-> inputs[i].dtype]]

\* AbsTensor.deepcopy(): a new tensor over the new list object id, which the
\* caller of this operator has filled with a copy of the elements
deepcopyMutant(s, id) == s
deepcopy(s, id) == [shape |-> id, dtype |-> s.dtype]

\* [s.deepcopy() for s in input_shapes]: one new list object per input
CopiedHeap(heap, inputs) == heap \o [i \in 1..Len(inputs) |-> heap[inputs[i].shape]]
CopiedInputs(heap, inputs) ==
    [i \in 1..Len(inputs) |-> deepcopy(inputs[i], Len(heap) + i)]

RECURSIVE SumAxis(_, _, _, _)
SumAxis(heap, tensors, axis, i) ==
    IF i > Len(tensors) THEN 0
    ELSE heap[tensors[i].shape][axis + 1] + SumAxis(heap, tensors, axis, i + 1)

\* the operators whose rules are modelled: [cls, arity, k, n]
DcOps ==
    {[cls |-> "Concat", arity |-> a, k |-> 0, n |-> 0] : a \in 1..MaxDcInputs} \cup
    {[cls |-> "Expand", arity |-> 1, k |-> k, n |-> 2] : k \in 1..2} \cup
    {[cls |-> "ElementWise", arity |-> 1, k |-> 0, n |-> 0]}

\* op._type_transfer(input_shapes) on the heap: [heap, kind].  alias says
\* whether AbsTensor(shape, dtype) keeps the list it is given or copies it.
DcTypeTransfer(op, heap, input_shapes, axis, alias) ==
    LET shape0 == heap[input_shapes[1].shape] IN
    CASE op.cls = "Concat" ->
            IF Len(shape0) = 0 THEN [heap |-> heap, kind |-> "SanityError"]
            ELSE IF \E i \in 1..Len(input_shapes) : Len(heap[input_shapes[i].shape]) <= axis
            THEN [heap |-> IF alias THEN heap ELSE Append(heap, shape0),
                  kind |-> "IndexError"]
            ELSE LET os == [shape0 EXCEPT ![axis + 1] = SumAxis(heap, input_shapes, axis, 1)]
                 IN  [heap |-> IF alias THEN [heap EXCEPT ![input_shapes[1].shape] = os]
                               ELSE Append(heap, os),
                      kind |-> "return"]
      [] op.cls = "Expand" ->
            [heap |-> Append(heap, ExpandShape(op.k, op.n, shape0)), kind |-> "return"]
      [] OTHER -> [heap |-> heap, kind |-> "return"]

\* wrapper_check_shape_fn on the heap
DcCheckShape(op, heap, inputs, axis, alias) ==
    IF ~SanityCheck_eq(Len(inputs), op.arity)
    THEN [heap |-> heap, kind |-> "SanityError"]
    ELSE DcTypeTransfer(op, CopiedHeap(heap, inputs), CopiedInputs(heap, inputs), axis, alias)

\* wrapper_check_require_fn on the heap: the rules only read their inputs
DcCheckRequire(op, heap, inputs) ==
    IF ~SanityCheck_eq(Len(inputs), op.arity)
    THEN [heap |-> heap, kind |-> "SanityError"]
    ELSE [heap |-> CopiedHeap(heap, inputs), kind |-> "return"]

\* the caller's tensors: each over its own list (the first holding a, the
\* others b), or one tensor passed twice
DcCallerStates ==
    UNION {{[heap |-> [i \in 1..n |-> IF i = 1 THEN a ELSE b],
             inputs |-> [i \in 1..n |-> [shape |-> i, dtype |-> dt]]] :
                a \in DcShapes, b \in DcShapes, dt \in {"f32", "i64"}} :
           n \in 1..MaxDcInputs} \cup
    {[heap |-> <<sh>>, inputs |-> <<[shape |-> 1, dtype |-> "f32"], [shape |-> 1, dtype |-> "f32"]>>] :
        sh \in DcShapes}

IdleDc == dc_pc = "idle" /\ dc_heap = <<>> /\ dc_inputs = <<>> /\ dc_before = <<>> /\ dc_call = <<>>



----------------------------------------------------------------------------
(* Pool2d, Conv1d, NCHWConv2d: shape inference       op.py 1081-1112,      *)
(* 1571-1588, 1666-1698.  Attributes and dimensions are concrete integers. *)

MaxSp == 3        \* input spatial sizes 1..MaxSp (and the 24 of the example)
MaxK == 4         \* kernel sizes 1..MaxK
MaxStride == 2    \* strides 1..MaxStride
MaxPad == 1       \* paddings 0..MaxPad
MaxDil == 2       \* dilations 1..MaxDil

\* symbolic-safe arithmetic on concrete operands
nnsmith_add(x, y) == x + y
nnsmith_sub(x, y) == x - y
nnsmith_mul(x, y) == x * y
nnsmith_div(x, y) == x \div y

\* mimic_k: the extent of a dilated kernel
mimic_kMutant(kernel_size, dilation) == kernel_size
mimic_k(kernel_size, dilation) == kernel_size + (dilation - 1) * (kernel_size - 1)

\* the expression appended for one spatial axis
SpatialOut(in, kernel, padding, stride) ==
    nnsmith_div(nnsmith_add(nnsmith_sub(in, kernel), 2 * padding), stride) + 1

Pool2d_type_transfer(op, shape) ==
    <<shape[1], shape[2],
      SpatialOut(shape[3], op.kernel_h_size, op.padding, op.stride),
      SpatialOut(shape[4], op.kernel_w_size, op.padding, op.stride)>>

Conv1d_type_transfer(op, shape) ==
    <<shape[1], op.out_channels,
      SpatialOut(shape[3], mimic_k(op.kernel_h_size, op.dilation_h), op.padding, op.stride)>>

NCHWConv2d_type_transfer(op, shape) ==
    <<shape[1], op.out_channels,
      SpatialOut(shape[3], mimic_k(op.kernel_h_size, op.dilation_h), op.padding, op.stride),
      SpatialOut(shape[4], mimic_k(op.kernel_w_size, op.dilation_w), op.padding, op.stride)>>

ConvTypeTransferOf(op, shape) ==
    CASE op.cls = "Pool2d" -> Pool2d_type_transfer(op, shape)
      [] op.cls = "Conv1d" -> Conv1d_type_transfer(op, shape)
      [] OTHER -> NCHWConv2d_type_transfer(op, shape)

\* an instance as one record; Conv1d keeps its kernel_size and dilation in
\* the _h fields, and the fields a class does not have hold 1
ConvOp(cls, ic, oc, kh, kw, s, p, dh, dw) ==
    [cls |-> cls, in_channels |-> ic, out_channels |-> oc,
     kernel_h_size |-> kh, kernel_w_size |-> kw, stride |-> s, padding |-> p,
     dilation_h |-> dh, dilation_w |-> dw]

ConvSpatial == (1..MaxSp) \cup {24}

\* [op, shape] pairs: an instance and the input it is applied to
ConvCalls ==
    {[op |-> ConvOp("Pool2d", 1, 1, kh, kw, s, p, 1, 1), shape |-> <<2, 3, h, w>>] :
        kh \in 1..MaxK, kw \in 1..MaxK, s \in 1..MaxStride, p \in 0..MaxPad,
        h \in ConvSpatial, w \in ConvSpatial} \cup
    {[op |-> ConvOp("Conv1d", 3, oc, k, 1, s, p, d, 1), shape |-> <<2, 3, l>>] :
        oc \in {3, 5}, k \in 1..MaxK, s \in 1..MaxStride, p \in 0..MaxPad,
        d \in 1..MaxDil, l \in ConvSpatial} \cup
    {[op |-> ConvOp("NCHWConv2d", 3, oc, kh, kw, s, p, dh, dw), shape |-> <<2, 3, h, w>>] :
        oc \in {3, 5}, kh \in 1..MaxK, kw \in 1..MaxK, s \in 1..MaxStride, p \in 0..MaxPad,
        dh \in 1..MaxDil, dw \in 1..MaxDil, h \in ConvSpatial, w \in ConvSpatial}

IdleCv == cv_pc = "idle" /\ cv_op = <<>> /\ cv_in = <<>> /\ cv_out = <<>>


----------------------------------------------------------------------------
(* backend_executor.py: BackendCreator, the stub backends and the command   *)

MaxOutVal == 2    \* an output mapping is one of the values 1..MaxOutVal

\* BackendCreator.NAME_MAP
NAME_MAP ==
    [n \in {"ort", "ort-debug", "tvm-llvm", "tvm-debug", "tvm-cuda", "xla", "trt"} |->
        CASE n = "ort" -> "ORTExecutor"
          [] n = "ort-debug" -> "ORTExecutorDebug"
          [] n = "tvm-llvm" -> "TVMExecutorLLVM"
          [] n = "tvm-debug" -> "TVMExecutorDebug"
          [] n = "tvm-cuda" -> "TVMExecutor"
          [] n = "xla" -> "XLAExecutor"
          [] OTHER -> "TRTBackend"]

\* the three stub names: the two __call__ knows and a name for DummyExecutor
StubNames == {"crash", "hang", "dummy"}

BackendNames == DOMAIN NAME_MAP \cup StubNames

\* BackendCreator.__init__(name): self.dump_name = self.NAME_MAP[name]
BackendCreator_init(name) ==
    IF name \in DOMAIN NAME_MAP THEN "ok" ELSE "KeyError"

\* BackendCreator.__call__(): the class instantiated, or ValueError
BackendCreator_call(name) ==
    CASE name \in {"ort", "ort-debug"} -> "ORTExecutor"
      [] name \in {"tvm-debug", "tvm-llvm", "tvm-cuda"} -> "TVMExecutor"
      [] name = "xla" -> "XLAExecutor"
      [] name = "trt" -> "TRTBackend"
      [] name = "crash" -> "CrashExecutor"
      [] name = "hang" -> "HangExecutor"
      [] OTHER -> "ValueError"

\* BackendCreator(name)(): construct, then call
MakeBackend(name) ==
    IF BackendCreator_init(name) # "ok" THEN BackendCreator_init(name)
    ELSE BackendCreator_call(name)

NoOutputs == [src |-> "none", v |-> 0, invalid |-> FALSE]

\* what backend.predict(model, inputs) can do, by class: return a mapping,
\* raise, or never return
PredictOutcomes(cls, src) ==
    CASE cls = "CrashExecutor" -> {[kind |-> "raise", out |-> NoOutputs]}
      [] cls = "HangExecutor" -> {[kind |-> "hang", out |-> NoOutputs]}
      [] cls = "DummyExecutor" ->
            {[kind |-> "return", out |-> [src |-> src, v |-> 0, invalid |-> FALSE]]}
      [] OTHER ->
            {[kind |-> "return", out |-> [src |-> src, v |-> v, invalid |-> i]] :
                v \in 1..MaxOutVal, i \in BOOLEAN} \cup
            {[kind |-> "raise", out |-> NoOutputs]}

\* input_gen.is_invalid(outputs): some output holds NaN or Inf
is_invalid(outputs) == outputs.invalid

\* difftest.assert_allclose(actual, expected, ...) returns; otherwise it raises
assert_allclose(actual, expected) ==
    actual.v = expected.v /\ actual.invalid = expected.invalid

\* lines 158-159: a failed assertion propagates and ends the run
AfterMismatchMutant == [pc |-> "dump", exit |-> "running"]
AfterMismatch == [pc |-> "end", exit |-> "raised"]

\* line 157
HasOracleMutant(oracle_outputs) == TRUE
HasOracle(oracle_outputs) == oracle_outputs # NoOutputs

\* the parsed command line.  --backend is required; --model is taken as given
CliArgs ==
    [backend : BackendNames,
     cmp_with : {"None"} \cup BackendNames,
     oracle : BOOLEAN,
     raw_input : BOOLEAN,
     seed : BOOLEAN,
     dump_raw : BOOLEAN]

\* Step 1: where test_inputs come from
TestInputsOf(args) ==
    IF args.oracle THEN "oracle"
    ELSE IF args.raw_input THEN "raw_input"
    ELSE "generated"

IdleCli ==
    /\ cli_pc = "idle" /\ cli_args = <<>> /\ cli_inputs = "" /\ cli_oracle = <<>>
    /\ cli_this = <<>> /\ cli_log = <<>> /\ cli_exit = ""


----------------------------------------------------------------------------
(* Lazily resolved attributes: Slice, Transpose, the Reduce family          *)
(* op.py 1222-1282, 1945-1968, 2076-2121.  One instance receives several    *)
(* calls.  Dimensions are concrete, except that the dimension Slice         *)
(* computes from its symbolic start, end and step is written SymDim.        *)

MaxLzRank == 3    \* rank of the inputs
MaxLzCalls == 2   \* calls made on the instance

SymDim == 0

HasAttr(extra_attrs, key) == \E a \in extra_attrs : a.key = key
GetAttr(extra_attrs, key) == CHOOSE a \in extra_attrs : a.key = key
SetAttr(extra_attrs, a) == {b \in extra_attrs : b.key # a.key} \cup {a}

NoneAttr(key) == StrAttr(key, "None")

\* "key" in self.extra_attrs: the attribute has been resolved already
AlreadyResolvedMutant(extra_attrs, key) == FALSE
AlreadyResolved(extra_attrs, key) == HasAttr(extra_attrs, key)

\* Slice.end == Slice.INT_MAX
IntMaxVal == [k |-> "INT_MAX", v |-> 0]

\* [x for i, x in enumerate(shape) if i != dim]
RECURSIVE DropAxis(_, _, _)
DropAxis(shape, dim, i) ==
    IF i > Len(shape) THEN <<>>
    ELSE (IF i - 1 # dim THEN <<shape[i]>> ELSE <<>>) \o DropAxis(shape, dim, i + 1)

\* ReduceBase._init_reduce_dim: the instance after it; pick is the
\* random.randint outcome when the attribute is not there yet
InitReduceDim(op, shape, pick) ==
    IF AlreadyResolved(op.extra_attrs, "reduce_dim") THEN op
    ELSE IF Len(shape) = 0
    THEN [op EXCEPT !.extra_attrs = SetAttr(@, NoneAttr("reduce_dim"))]
    ELSE [op EXCEPT !.extra_attrs = SetAttr(@, IntAttr("reduce_dim", pick))]

ReduceOutDtype(cls, dtype) == IF cls \in {"ArgMin", "ArgMax"} THEN "i64" ELSE dtype

LzOut(kind, shape, dtype, cons) == [kind |-> kind, shape |-> shape, dtype |-> dtype, cons |-> cons]

\* ReduceBase._type_transfer: [op, out]
Reduce_type_transfer(op, shape, dtype, pick) ==
    LET op1 == IF Len(shape) = 0 THEN op ELSE InitReduceDim(op, shape, pick)
        rd == GetAttr(op1.extra_attrs, "reduce_dim")
        dim == IF Len(shape) = 0 \/ rd.s = "None" THEN Len(shape) ELSE rd.n
    IN  [op |-> op1,
         out |-> LzOut("return", DropAxis(shape, dim, 1), ReduceOutDtype(op.cls, dtype), <<>>)]

\* ReduceBase._requires and Squeeze._requires: [op, out]; a constraint on
\* concrete dimensions is the boolean it evaluates to
Reduce_requires(op, shape, dtype, pick) ==
    LET op1 == InitReduceDim(op, shape, pick)
        rd == GetAttr(op1.extra_attrs, "reduce_dim")
    IN  IF op.cls # "Squeeze" \/ rd.s = "None"
        THEN [op |-> op1, out |-> LzOut("return", <<>>, dtype, <<>>)]
        ELSE IF rd.n >= Len(shape)
        THEN [op |-> op1, out |-> LzOut("IndexError", <<>>, dtype, <<>>)]
        ELSE [op |-> op1,
              out |-> LzOut("return", <<>>, dtype, <<nnsmith_eq(shape[rd.n + 1], 1)>>)]

\* Slice._get_attrs: pick = [axis, region, open], the three random outcomes
Slice_get_attrs(op, ndims, pick) ==
    IF AlreadyResolved(op.extra_attrs, "axis") THEN op
    ELSE [op EXCEPT
            !.extra_attrs = SetAttr(SetAttr(SetAttr(@, IntAttr("ndims", ndims)),
                                            IntAttr("axis", pick.axis)),
                                    StrAttr("region", pick.region)),
            !.args = IF pick.open THEN [@ EXCEPT ![2] = IntMaxVal] ELSE @]

Slice_type_transfer(op, shape, dtype, pick) ==
    IF Len(shape) = 0 THEN [op |-> op, out |-> LzOut("ConstraintError", <<>>, dtype, <<>>)]
    ELSE LET op1 == Slice_get_attrs(op, Len(shape), pick)
             axis == GetAttr(op1.extra_attrs, "axis").n
         IN  IF axis >= Len(shape)
             THEN [op |-> op1, out |-> LzOut("IndexError", <<>>, dtype, <<>>)]
             ELSE [op |-> op1,
                   out |-> LzOut("return", [shape EXCEPT ![axis + 1] = SymDim], dtype, <<>>)]

\* Slice._requires: the constraints stay symbolic; their number depends on
\* whether end is the sentinel
Slice_requires(op, shape, dtype, pick) ==
    IF Len(shape) = 0 THEN [op |-> op, out |-> LzOut("ConstraintError", <<>>, dtype, <<>>)]
    ELSE LET op1 == Slice_get_attrs(op, Len(shape), pick)
             axis == GetAttr(op1.extra_attrs, "axis").n
         IN  IF axis >= Len(shape)
             THEN [op |-> op1, out |-> LzOut("IndexError", <<>>, dtype, <<>>)]
             ELSE [op |-> op1,
                   out |-> LzOut("return", <<>>, dtype,
                                 IF op1.args[2] = IntMaxVal
                                 THEN <<TRUE, TRUE, TRUE>>
                                 ELSE <<TRUE, TRUE, TRUE, TRUE, TRUE>>)]

\* Transpose._init_swap_dims: pick = [d0, d1], the two random.randint outcomes
Transpose_init_swap_dims(op, ndims, pick) ==
    LET op1 == [op EXCEPT !.inp_ranks = <<{ndims}>>] IN
    IF AlreadyResolved(op.extra_attrs, "dim0") /\ AlreadyResolved(op.extra_attrs, "dim1")
    THEN op1
    ELSE [op1 EXCEPT !.extra_attrs =
            SetAttr(SetAttr(@, IntAttr("dim0", pick.d0)),
                    IntAttr("dim1", (pick.d1 + pick.d0) % ndims))]

Transpose_type_transfer(op, shape, dtype, pick) ==
    IF Len(shape) < 2 THEN [op |-> op, out |-> LzOut("ConstraintError", <<>>, dtype, <<>>)]
    ELSE LET op1 == Transpose_init_swap_dims(op, Len(shape), pick)
             dim0 == GetAttr(op1.extra_attrs, "dim0").n
             dim1 == GetAttr(op1.extra_attrs, "dim1").n
         IN  IF dim0 >= Len(shape) \/ dim1 >= Len(shape)
             THEN [op |-> op1, out |-> LzOut("IndexError", <<>>, dtype, <<>>)]
             ELSE [op |-> op1,
                   out |-> LzOut("return",
                                 [shape EXCEPT ![dim0 + 1] = shape[dim1 + 1],
                                               ![dim1 + 1] = shape[dim0 + 1]],
                                 dtype, <<>>)]

Transpose_requires(op, shape, dtype, pick) ==
    IF Len(shape) < 2 THEN [op |-> op, out |-> LzOut("ConstraintError", <<>>, dtype, <<>>)]
    ELSE LET op1 == Transpose_init_swap_dims(op, Len(shape), pick)
             dim0 == GetAttr(op1.extra_attrs, "dim0").n
             dim1 == GetAttr(op1.extra_attrs, "dim1").n
         IN  IF dim0 >= Len(shape) \/ dim1 >= Len(shape)
             THEN [op |-> op1, out |-> LzOut("SanityError", <<>>, dtype, <<>>)]
             ELSE [op |-> op1, out |-> LzOut("return", <<>>, dtype, <<>>)]

\* the random outcomes a call may draw for an input of rank ndims
LzPicks(cls, ndims) ==
    CASE cls = "Slice" ->
            {[axis |-> a, region |-> g, open |-> o, d0 |-> 0, d1 |-> 0] :
                a \in 0..(ndims - 1), g \in {"left", "mid", "right"}, o \in BOOLEAN}
      [] cls = "Transpose" ->
            {[axis |-> 0, region |-> "", open |-> FALSE, d0 |-> a, d1 |-> b] :
                a \in 0..(ndims - 1), b \in 1..(ndims - 1)}
      [] OTHER ->
            {[axis |-> a, region |-> "", open |-> FALSE, d0 |-> 0, d1 |-> 0] :
                a \in 0..(ndims - 1)}

NoPick == [axis |-> 0, region |-> "", open |-> FALSE, d0 |-> 0, d1 |-> 0]

LzTypeTransfer(op, shape, dtype, pick) ==
    CASE op.cls = "Slice" -> Slice_type_transfer(op, shape, dtype, pick)
      [] op.cls = "Transpose" -> Transpose_type_transfer(op, shape, dtype, pick)
      [] OTHER -> Reduce_type_transfer(op, shape, dtype, pick.axis)

LzRequires(op, shape, dtype, pick) ==
    CASE op.cls = "Slice" -> Slice_requires(op, shape, dtype, pick)
      [] op.cls = "Transpose" -> Transpose_requires(op, shape, dtype, pick)
      [] OTHER -> Reduce_requires(op, shape, dtype, pick.axis)

\* per rank, a shape of distinct dimensions and a shape of ones
LzShapes ==
    UNION {{[i \in 1..r |-> i + 1], [i \in 1..r |-> 1]} : r \in 0..MaxLzRank}

LzInstances ==
    {Construct(c, <<>>) : c \in {"Squeeze", "ReduceSum", "ArgMax", "Transpose"}} \cup
    {Construct("Slice", <<SymVal(1), SymVal(2), SymVal(3)>>)}

IdleLz ==
    /\ lz_op = <<>> /\ lz_calls = 0 /\ lz_method = "" /\ lz_in = <<>> /\ lz_out = <<>>
    /\ lz_before = {}


----------------------------------------------------------------------------
(* TVMFactory.cvt_result and the closure of mk_backend     tvm.py 39-69     *)

MaxTvOutputs == 2   \* declared outputs of the model, and tensors in a result
MaxTvTensor == 2    \* distinct device tensors

TvNames == {"o1", "o2", "o3"}

\* model.output_like.keys(): distinct names in declaration order
RECURSIVE DistinctSeqs(_, _)
DistinctSeqs(S, n) ==
    IF n = 0 THEN {<<>>}
    ELSE UNION {{<<x>> \o t : t \in DistinctSeqs(S \ {x}, n - 1)} : x \in S}

\* a device tensor, and r.numpy(): the host array holding its data
DeviceTensor(i) == [where |-> "device", data |-> i]
numpy(r) == [where |-> "host", data |-> r.data]

\* what executor(**inputs) hands back: None, one tensor, or a list / ADT
TvOutputs ==
    {[kind |-> "None", items |-> <<>>]} \cup
    {[kind |-> "tensor", items |-> <<DeviceTensor(i)>>] : i \in 1..MaxTvTensor} \cup
    UNION {{[kind |-> "list", items |-> [j \in 1..m |-> DeviceTensor(f[j])]] :
                f \in [1..m -> 1..MaxTvTensor]} : m \in 0..MaxTvOutputs}

\* TVMFactory.cvt_result(output): [err, list]
cvt_result(output) ==
    IF output.kind = "None" THEN [err |-> "AssertionError", list |-> <<>>]
    ELSE [err |-> "none",
          list |-> [j \in 1..Len(output.items) |-> numpy(output.items[j])]]

\* the index of the result tensor paired with the i-th name
ZipIndexMutant(i, n) == n - i + 1
ZipIndex(i, n) == i

Min2(a, b) == IF a <= b THEN a ELSE b

\* dict(zip(keys, output)): the entries in insertion order
dict_zip(keys, output) ==
    [i \in 1..Min2(Len(keys), Len(output)) |->
        <<keys[i], output[ZipIndex(i, Min2(Len(keys), Len(output)))]>>]

\* closure(inputs) of mk_backend, given what the executor returned
closure(keys, output) ==
    IF cvt_result(output).err # "none"
    THEN [err |-> cvt_result(output).err, map |-> <<>>]
    ELSE [err |-> "none", map |-> dict_zip(keys, cvt_result(output).list)]

IdleTv == tv_pc = "idle" /\ tv_names = <<>> /\ tv_output = <<>> /\ tv_ret = <<>>


----------------------------------------------------------------------------
(* Conv1d._requires and NCHWConv2d._requires          op.py 1591-1606,     *)
(* 1700-1728.  The attributes are solver symbols; an integer assignment is  *)
(* a ConvOp record, and a constraint is the boolean it evaluates to.        *)

MaxRqK == 2       \* kernel sizes 0..MaxRqK
MaxRqStride == 1  \* strides 0..MaxRqStride
MaxRqDil == 2     \* dilations 0..MaxRqDil
MaxRqIn == 2      \* input spatial sizes 1..MaxRqIn

FLOPS_LIM == 1073741824

nnsmith_ge(x, y) == x >= y
nnsmith_le(x, y) == x <= y

RECURSIVE nelement(_)
nelement(shape) == IF shape = <<>> THEN 1 ELSE shape[1] * nelement(Tail(shape))

\* NCHWConv2d.flops
NCHWConv2d_flops(op, shape) ==
    nnsmith_mul(nnsmith_mul(nnsmith_mul(nelement(NCHWConv2d_type_transfer(op, shape)),
                                        op.in_channels),
                            op.kernel_h_size),
                op.kernel_w_size)

\* the FLOPs constraint under the assignment; with a stride that is not
\* positive the quotient in it is whatever the solver likes, so it can hold
FlopsCons(op, shape) ==
    IF op.stride < 1 THEN TRUE
    ELSE nnsmith_le(NCHWConv2d_flops(op, shape), FLOPS_LIM)

Conv1d_requires(op, shape) ==
    <<nnsmith_eq(op.in_channels, shape[2]),
      nnsmith_ge(op.out_channels, 1),
      nnsmith_ge(op.dilation_h, 1),
      nnsmith_ge(mimic_k(op.kernel_h_size, op.dilation_h), 1),
      nnsmith_ge(op.stride, 1),
      nnsmith_ge(op.padding, 0),
      nnsmith_le(mimic_k(op.kernel_h_size, op.dilation_h),
                 nnsmith_add(shape[3], 2 * op.padding)),
      nnsmith_le(op.padding, 255)>>

NCHWConv2d_requires(op, shape, z3_cons_flops) ==
    <<nnsmith_eq(op.in_channels, shape[2]),
      nnsmith_ge(op.out_channels, 1),
      nnsmith_ge(op.dilation_h, 1),
      nnsmith_ge(op.dilation_w, 1),
      nnsmith_ge(mimic_k(op.kernel_h_size, op.dilation_h), 1),
      nnsmith_ge(mimic_k(op.kernel_w_size, op.dilation_w), 1),
      nnsmith_ge(op.stride, 1),
      nnsmith_ge(op.padding, 0),
      nnsmith_le(mimic_k(op.kernel_h_size, op.dilation_h),
                 nnsmith_add(shape[3], 2 * op.padding)),
      nnsmith_le(mimic_k(op.kernel_w_size, op.dilation_w),
                 nnsmith_add(shape[4], 2 * op.padding)),
      nnsmith_le(op.padding, 255)>> \o
    (IF z3_cons_flops THEN <<FlopsCons(op, shape)>> ELSE <<>>)

ConvRequiresOf(op, shape, z3_cons_flops) ==
    IF op.cls = "Conv1d" THEN Conv1d_requires(op, shape)
    ELSE NCHWConv2d_requires(op, shape, z3_cons_flops)

\* paddings around the two limits
RqPaddings == {-1, 0, 1, 255, 256}

\* (in_channels, out_channels) against an input with 3 channels
RqChannels == {<<3, 1>>, <<4, 1>>, <<3, 0>>}

\* integer assignments to the attributes, and the input they are for
RqCalls ==
    {[op |-> ConvOp("Conv1d", ch[1], ch[2], k, 1, s, p, d, 1), shape |-> <<2, 3, l>>] :
        ch \in RqChannels, k \in 0..MaxRqK, s \in 0..MaxRqStride, p \in RqPaddings,
        d \in 0..MaxRqDil, l \in 1..MaxRqIn} \cup
    {[op |-> ConvOp("NCHWConv2d", ch[1], ch[2], kh, kw, s, p, dh, dw), shape |-> <<2, 3, h, w>>] :
        ch \in RqChannels, kh \in 0..MaxRqK, kw \in 0..MaxRqK, s \in 0..MaxRqStride,
        p \in RqPaddings, dh \in 0..MaxRqDil, dw \in 0..MaxRqDil,
        h \in 1..MaxRqIn, w \in 1..MaxRqIn}

IdleRq == rq_pc = "idle" /\ rq_op = <<>> /\ rq_in = <<>> /\ rq_flops = FALSE /\ rq_cons = <<>>


----------------------------------------------------------------------------
(* Reshape._requires                                    op.py 1857-1910    *)

MaxRsRank == 2    \* ranks of the input and of the target shape
MaxRsDim == 2     \* dimensions 1..MaxRsDim

__DIM_LIMIT__ == 4096

RsShapes == UNION {[1..r -> 1..MaxRsDim] : r \in 0..MaxRsRank}

\* src_len / dst_len: a scalar counts as one dimension
ScalarLen(n) == IF n = 0 THEN 1 ELSE n

\* src_vars / dst_vars: a scalar is the one-element list [1]
ScalarVars(shape) == IF Len(shape) = 0 THEN <<1>> ELSE shape

\* the group counts NNSMITH_GRES allows
GroupCounts(gres_config, src_len, dst_len) ==
    CASE gres_config = "5" -> {1}
      [] gres_config = "3" -> {Min2(src_len, dst_len)}
      [] OTHER -> 1..Min2(src_len, dst_len)

RECURSIVE ProdOf(_)
ProdOf(s) == IF s = <<>> THEN 1 ELSE nnsmith_mul(Head(s), ProdOf(Tail(s)))

\* reduce(nnsmith_mul, [vars[i] for i in idx], 1); idx holds 0-based indices
GroupProdMutant(vs, idx) == vs[idx[1] + 1]
GroupProd(vs, idx) == ProdOf([j \in 1..Len(idx) |-> vs[idx[j] + 1]])

\* the groupings random_group(n, k) can draw
RandomGroups(n, k) ==
    {random_group(n, k, draws, perm).ret :
        draws \in [1..(k - 1) -> 0..(n - k)], perm \in Perms(n)}

cons_group(src_vars, dst_vars, src_group, dst_group) ==
    [g \in 1..Len(src_group) |->
        nnsmith_eq(GroupProd(src_vars, src_group[g]), GroupProd(dst_vars, dst_group[g]))]

Max2(a, b) == IF a >= b THEN a ELSE b

\* lim after i halvings, never below 1
RECURSIVE DimLimit(_)
DimLimit(i) == IF i = 0 THEN __DIM_LIMIT__ ELSE Max2(DimLimit(i - 1) \div 2, 1)

\* the NNSMITH_CONS_RESHAPE constraints, last target dimension first
cons_limit(target_shape) ==
    [i \in 1..Len(target_shape) |->
        nnsmith_le(target_shape[Len(target_shape) + 1 - i], DimLimit(i - 1))]

Reshape_requires(inp, target_shape, src_group, dst_group, cons_reshape) ==
    cons_group(ScalarVars(inp), ScalarVars(target_shape), src_group, dst_group) \o
    (IF cons_reshape THEN cons_limit(target_shape) ELSE <<>>)

IdleRs ==
    /\ rs_pc = "idle" /\ rs_in = <<>> /\ rs_target = <<>> /\ rs_env = <<>>
    /\ rs_ng = 0 /\ rs_src_group = <<>> /\ rs_dst_group = <<>> /\ rs_cons = <<>>


----------------------------------------------------------------------------
(* Slice on integer assignments                         op.py 1222-1303    *)
(* start, end and step are solver symbols; here they carry the integers an  *)
(* assignment gives them.  end is [k |-> "int", v |-> n] or the sentinel.   *)

MaxSlRank == 2    \* rank of the input
MaxSlDim == 2     \* dimensions 1..MaxSlDim

IntEnd(n) == [k |-> "int", v |-> n]

NoSliceAttrs == [set |-> FALSE, ndims |-> 0, axis |-> 0, region |-> ""]

\* what _get_attrs can draw on an input of rank ndims
SlicePicks(ndims) ==
    [axis : 0..(ndims - 1), region : {"left", "mid", "right"}, open : BOOLEAN]

\* Slice._get_attrs: draws once, keeps what is there afterwards
Slice_get_attrs_int(op, ndims, pick) ==
    IF op.extra_attrs.set THEN op
    ELSE [op EXCEPT
            !.extra_attrs = [set |-> TRUE, ndims |-> ndims, axis |-> pick.axis,
                             region |-> pick.region],
            !.end = IF pick.open THEN IntMaxVal ELSE @]

\* end, with the sentinel replaced by the size of the axis
SliceEndMutant(end, dim_s) == end.v
SliceEnd(end, dim_s) == IF end = IntMaxVal THEN dim_s ELSE end.v

nnsmith_gt(x, y) == x > y

\* Slice._requires, each constraint evaluated under the assignment
Slice_requires_int(op, shape) ==
    LET dim_s == shape[op.extra_attrs.axis + 1]
        l == 0
        r == nnsmith_sub(dim_s, 1)
        ll == 0
        rr == dim_s
    IN  <<nnsmith_ge(op.start, l) /\ nnsmith_le(op.start, r)>> \o
        (IF op.end # IntMaxVal
         THEN <<nnsmith_ge(op.end.v, ll) /\ nnsmith_le(op.end.v, rr),
                nnsmith_gt(op.end.v, op.start)>>
         ELSE <<>>) \o
        <<nnsmith_ge(op.step, 1), nnsmith_le(op.step, dim_s)>>

\* Slice._type_transfer; a zero step has no quotient
Slice_type_transfer_int(op, shape) ==
    LET axis == op.extra_attrs.axis
        end == SliceEnd(op.end, shape[axis + 1])
    IN  IF op.step = 0 THEN [kind |-> "ZeroDivisionError", shape |-> <<>>]
        ELSE [kind |-> "return",
              shape |-> [shape EXCEPT ![axis + 1] =
                            nnsmith_div(nnsmith_add(nnsmith_sub(end, op.start),
                                                    nnsmith_sub(op.step, 1)),
                                        op.step)]]

\* Slice.torch: the start the hook slices from
TorchStart(op, dim_s) ==
    IF op.extra_attrs.region \in {"left", "mid"} THEN op.start - dim_s ELSE op.start

\* Slice.torch: the end the hook slices to
TorchEndMutant(op, dim_s) ==
    IF op.extra_attrs.region = "left" /\ op.end # IntMaxVal
    THEN IntEnd(op.end.v - dim_s) ELSE op.end
TorchEnd(op, dim_s) ==
    IF op.extra_attrs.region = "left" /\ op.end # IntMaxVal /\ op.end.v < dim_s
    THEN IntEnd(op.end.v - dim_s) ELSE op.end

\* a slice bound brought into 0..len as indexing with a positive step does
SliceIndex(i, len) == IF i < 0 THEN Max2(i + len, 0) ELSE Min2(i, len)

\* number of elements x[start:end:step] selects on an axis of size len
SliceLen(start, end, step, len) ==
    LET lo == SliceIndex(start, len)
        hi == IF end = IntMaxVal THEN len ELSE SliceIndex(end.v, len)
    IN  IF hi > lo THEN ((hi - lo - 1) \div step) + 1 ELSE 0

\* the shape of _func(x) for x of the given shape
Slice_torch(op, shape) ==
    LET axis == op.extra_attrs.axis
        dim_s == shape[axis + 1]
    IN  IF op.step < 1 THEN [kind |-> "ValueError", shape |-> <<>>]
        ELSE [kind |-> "return",
              shape |-> [shape EXCEPT ![axis + 1] =
                            SliceLen(TorchStart(op, dim_s), TorchEnd(op, dim_s),
                                     op.step, dim_s)]]

SlShapes == UNION {[1..r -> 1..MaxSlDim] : r \in 1..MaxSlRank}

\* the assignments: legal values and the ones just outside each range
SlOps ==
    [start : -1..MaxSlDim, end : {IntEnd(n) : n \in 0..(MaxSlDim + 1)},
     step : 0..(MaxSlDim + 1), extra_attrs : {NoSliceAttrs}]

NoSlOut == [kind |-> "", shape |-> <<>>]

IdleSl ==
    /\ sl_done = {} /\ sl_op = <<>> /\ sl_in = <<>> /\ sl_cons = <<>>
    /\ sl_out = NoSlOut /\ sl_sel = NoSlOut


----------------------------------------------------------------------------
(* bcast_rand_ndims and the reverse deduction of broadcast operators        *)
(*                                                  op.py 423-426, 452-459 *)

MaxBrN == 3       \* num_svars 1..MaxBrN
MaxBrDim == 2     \* dimensions 1..MaxBrDim

\* res[i] = target_ndims, i counted from 0
SetRankMutant(res, i, target_ndims) == res
SetRank(res, i, target_ndims) == [res EXCEPT ![i + 1] = target_ndims]

\* draws: the num_svars outcomes of random.randint(0, target_ndims);
\* i: the outcome of random.randint(0, num_svars - 1)
bcast_rand_ndims(num_svars, target_ndims, draws, i) ==
    SetRank(draws, i, target_ndims)

\* a shape of the given rank with every dimension d
UniformShape(rank, d) == [p \in 1..rank |-> d]

IdleBr ==
    /\ br_pc = "idle" /\ br_n = 0 /\ br_t = 0 /\ br_ranks = <<>>
    /\ br_shapes = <<>> /\ br_out = <<>>


----------------------------------------------------------------------------
(* Ploter                                       viz_merged_cov.py 8-66     *)
(* A run is the coverage column df[:, 2] of the data handed to add.  The   *)
(* y-axis floor is kept in quarters, so that cov_min * 0.75 is an integer.  *)

MaxRuns == 2      \* calls of add
MaxRows == 2      \* rows of a run
MaxCov == 2       \* coverage values 0..MaxCov

PlRuns == UNION {[1..n -> 0..MaxCov] : n \in 1..MaxRows}

\* df[:, 2].max()
Peak(run) == Maximum(Range(run))

Minimum(S) == CHOOSE m \in S : \A x \in S : m <= x

NoLim == [given |-> FALSE, val |-> 0]

\* a value as a number of quarters
Quarters(x) == 4 * x

\* cov_min * 0.75, in quarters
AutoFloor(cov_min) == 3 * cov_min

\* the bottom plot gives to the two coverage axes, in quarters
PlotBottom(cov_lim, cov_min) ==
    IF cov_lim.given THEN Quarters(cov_lim.val) ELSE AutoFloor(cov_min)

IdlePl ==
    /\ pl_pc = "idle" /\ pl_cov_lim = NoLim /\ pl_cov_max = 0 /\ pl_cov_min = 0
    /\ pl_lines = <<>> /\ pl_legends = <<>> /\ pl_bottom = 0


----------------------------------------------------------------------------
(* Gemm                                                op.py 2472-2530     *)
(* A real in [-2, 2] is kept as a number of 1/GmDen steps: k stands for     *)
(* k / GmDen, and is an integer when GmDen divides k.                       *)

GmDen == 2        \* resolution of random.uniform
MaxGmDim == 2     \* matrix dimensions 1..MaxGmDim
MaxGmCalls == 2   \* calls of checked_requires on one instance

\* DType.torch(): the reference library's type tag of a dtype
TorchTag ==
    [d \in Range(DTYPE_ALL) |->
        CASE d = "f32" -> "torch.float32"
          [] d = "f64" -> "torch.float64"
          [] d = "i32" -> "torch.int32"
          [] d = "i64" -> "torch.int64"
          [] OTHER -> "torch.bool"]

\* random.uniform(-2, 2)
Uniform == (0 - 2 * GmDen)..(2 * GmDen)

\* int(x): truncation toward zero
Truncate(k) == IF k >= 0 THEN (k \div GmDen) * GmDen ELSE 0 - ((0 - k) \div GmDen) * GmDen

IsInteger(k) == k % GmDen = 0

NoGemmAttrs == [set |-> FALSE, alpha |-> 0, beta |-> 0]

\* Gemm._set_or_get_extra_attrs(dtype) once the first call has a dtype;
\* dtype is what the caller passes
Gemm_set_or_get_extra_attrs(extra_attrs, dtype, alpha, beta) ==
    IF extra_attrs.set THEN extra_attrs
    ELSE IF dtype \in Range(DTYPE_INTS)
         THEN [set |-> TRUE, alpha |-> Truncate(alpha), beta |-> Truncate(beta)]
         ELSE [set |-> TRUE, alpha |-> alpha, beta |-> beta]

Gemm_type_transfer(inp) == <<inp.mat1[1], inp.mat2[2]>>

Gemm_flops(inp) == inp.mat1[1] * inp.mat1[2] * inp.mat2[2]

\* Gemm._requires: the outcome and the attribute table afterwards
Gemm_requires(extra_attrs, inp, alpha, beta, z3_cons_flops) ==
    IF ~(Len(inp.bias) <= 2)
    THEN [kind |-> "ConstraintError", cons |-> <<>>, extra_attrs |-> extra_attrs]
    ELSE LET to == broadcast_to_cons(<<inp.bias, Gemm_type_transfer(inp)>>)
         IN  [kind |-> "return",
              cons |-> to.cons \o <<inp.mat1[2] = inp.mat2[1]>> \o
                       (IF z3_cons_flops
                        THEN <<nnsmith_le(Gemm_flops(inp), FLOPS_LIM)>> ELSE <<>>),
              extra_attrs |-> Gemm_set_or_get_extra_attrs(extra_attrs,
                                  TorchTag[inp.dtype], alpha, beta)]

GmInputs ==
    [bias : {UniformShape(r, 1) : r \in 0..3},
     mat1 : [1..2 -> 1..MaxGmDim], mat2 : [1..2 -> 1..MaxGmDim],
     dtype : Range(DTYPE_NON_BOOLS)]

IdleGm ==
    /\ gm_calls = 0 /\ gm_in = <<>> /\ gm_extra = NoGemmAttrs /\ gm_first = NoGemmAttrs
    /\ gm_res = <<>> /\ gm_hook = ""


----------------------------------------------------------------------------
(* The dtype whitelists of the registered operators and the dtype their     *)
(* inference gives to the output                        op.py 378-2476     *)

\* [(i, ..., i) for i in dtypes], n times
Same(n, dtypes) == {[k \in 1..n |-> d] : d \in Range(dtypes)}

\* the output dtype is the dtype of input i
FromInput(i) == [k |-> "input", i |-> i, d |-> ""]
\* the output dtype is d whatever the inputs are
Fixed(d) == [k |-> "fixed", i |-> 0, d |-> d]

DtypeEntry(names, ins, outs, rule) ==
    [names |-> names, in_dtypes |-> ins, out_dtypes |-> outs, rule |-> rule]

\* one entry per group of @leaf classes that see the same in_dtypes and
\* out_dtypes (their own or the nearest base's) and the same _type_transfer
DtypeCatalog ==
    {DtypeEntry({"Where"},
        {<<"b", d, d>> : d \in Range(DTYPE_NON_BOOLS)}, Range(DTYPE_NON_BOOLS), FromInput(2)),
     DtypeEntry({"Add", "Sub", "Mul", "Max", "Min", "Div"},
        Same(2, DTYPE_NON_BOOLS), Range(DTYPE_NON_BOOLS), FromInput(1)),
     DtypeEntry({"Equal", "Greater", "Less"}, Same(2, DTYPE_ALL), {"b"}, Fixed("b")),
     DtypeEntry({"And", "Or", "Xor"}, {<<"b", "b">>}, {"b"}, Fixed("b")),
     DtypeEntry({"Pow"}, Same(2, DTYPE_FLOATS), Range(DTYPE_FLOATS), FromInput(1)),
     DtypeEntry({"GELU", "LeakyReLU", "Sigmoid", "Sin", "Cos", "Asin", "Acos", "Tan",
                 "Atan", "ReLU", "Ceil", "Floor", "Round", "Sqrt", "Log2", "Softmax",
                 "MaxPool2d", "AvgPool2d", "ConstPad", "ReplicatePad", "ReflectPad",
                 "NearestInterp", "LinearInterp", "BilinearInterp", "BicubicInterp",
                 "TrilinearInterp", "ReduceMean"},
        Same(1, DTYPE_FLOATS), Range(DTYPE_FLOATS), FromInput(1)),
     DtypeEntry({"PReLU", "BatchNorm2d", "Conv1d", "NCHWConv2d"},
        {<<"f32">>}, {"f32"}, FromInput(1)),
     DtypeEntry({"Linear"}, {<<"f32">>}, {"f32"}, Fixed("f32")),
     DtypeEntry({"Abs", "Clip"}, Same(1, DTYPE_NON_BOOLS), Range(DTYPE_FLOATS), FromInput(1)),
     DtypeEntry({"Neg", "ReduceMin", "ReduceMax"},
        Same(1, DTYPE_NON_BOOLS), Range(DTYPE_NON_BOOLS), FromInput(1)),
     DtypeEntry({"Gemm"}, Same(3, DTYPE_NON_BOOLS), Range(DTYPE_NON_BOOLS), FromInput(1)),
     DtypeEntry({"Slice", "Transpose", "Squeeze"},
        Same(1, DTYPE_ALL), Range(DTYPE_FLOATS), FromInput(1)),
     DtypeEntry({"ExpandLast1", "ExpandLast2", "ExpandLast3", "ExpandLast4", "Reshape",
                 "Flatten", "Tril", "Triu", "Concat1"},
        Same(1, DTYPE_ALL), Range(DTYPE_ALL), FromInput(1)),
     DtypeEntry({"Concat2"}, Same(2, DTYPE_ALL), Range(DTYPE_ALL), FromInput(1)),
     DtypeEntry({"Concat3"}, Same(3, DTYPE_ALL), Range(DTYPE_ALL), FromInput(1)),
     DtypeEntry({"Concat4"}, Same(4, DTYPE_ALL), Range(DTYPE_ALL), FromInput(1)),
     DtypeEntry({"Concat5"}, Same(5, DTYPE_ALL), Range(DTYPE_ALL), FromInput(1)),
     DtypeEntry({"ReduceSum"},
        Same(1, DTYPE_NON_BOOLS) \ {<<"i32">>}, Range(DTYPE_NON_BOOLS) \ {"i32"},
        FromInput(1)),
     DtypeEntry({"ArgMin", "ArgMax"}, Same(1, DTYPE_FLOATS), {"i64"}, Fixed("i64")),
     DtypeEntry({"CastF32"}, Same(1, DTYPE_ALL), {"f32"}, Fixed("f32")),
     DtypeEntry({"CastF64"}, Same(1, DTYPE_ALL), {"f64"}, Fixed("f64")),
     DtypeEntry({"CastI32"}, Same(1, DTYPE_ALL), {"i32"}, Fixed("i32")),
     DtypeEntry({"CastI64"}, Same(1, DTYPE_ALL), {"i64"}, Fixed("i64")),
     DtypeEntry({"CastBool"}, Same(1, DTYPE_ALL), {"b"}, Fixed("b"))}

RegisteredOps == UNION {e.names : e \in DtypeCatalog}

EntryOf(op) == CHOOSE e \in DtypeCatalog : op \in e.names

\* the dtype of the tensor _type_transfer returns
TransferDtype(op, in_dtypes0) ==
    LET rule == EntryOf(op).rule
    IN  IF rule.k = "input" THEN in_dtypes0[rule.i] ELSE rule.d

IdleDt == dt_pc = "idle" /\ dt_op = "" /\ dt_in = <<>> /\ dt_out = ""


----------------------------------------------------------------------------
(* Pool2d._requires                                    op.py 1114-1157     *)

MaxPdK == 2       \* kernel sizes 0..MaxPdK
MaxPdStride == 2  \* strides 0..MaxPdStride
MaxPdDil == 2     \* dilations 1..MaxPdDil
MaxPdIn == 3      \* input spatial sizes 1..MaxPdIn

POOL_SIZE_LIM == 10000

nnsmith_lt(x, y) == x < y

\* kernel <= input + 2 * padding
FitsPaddedMutant(kernel, in, padding) == TRUE
FitsPadded(kernel, in, padding) == nnsmith_le(kernel, nnsmith_add(in, 2 * padding))

\* Pool2d.flops
Pool2d_flops(op, shape) ==
    nnsmith_mul(nnsmith_mul(nelement(Pool2d_type_transfer(op, shape)), op.kernel_h_size),
                op.kernel_w_size)

Pool2d_requires(op, shape, z3_cons_flops) ==
    <<nnsmith_ge(op.kernel_h_size, 1),
      nnsmith_ge(op.kernel_w_size, 1),
      FitsPadded(op.kernel_h_size, shape[3], op.padding),
      FitsPadded(op.kernel_w_size, shape[4], op.padding),
      nnsmith_ge(op.stride, 1),
      nnsmith_ge(op.padding, 0),
      nnsmith_le(op.padding, 255),
      nnsmith_le(op.padding, nnsmith_div(op.kernel_h_size, 2)),
      nnsmith_le(op.padding, nnsmith_div(op.kernel_w_size, 2)),
      nnsmith_lt(nnsmith_mul(op.kernel_h_size, op.kernel_w_size), POOL_SIZE_LIM)>> \o
    (IF z3_cons_flops
     THEN <<IF op.stride < 1 THEN TRUE
            ELSE nnsmith_le(Pool2d_flops(op, shape), FLOPS_LIM)>>
     ELSE <<>>)

PdPaddings == {-1, 0, 1}

\* integer assignments of Pool2d and NCHWConv2d, and the input they are for
PdCalls ==
    {[op |-> ConvOp("Pool2d", 0, 0, kh, kw, s, p, 1, 1), shape |-> <<2, 3, h, w>>] :
        kh \in 0..MaxPdK, kw \in 0..MaxPdK, s \in 0..MaxPdStride, p \in PdPaddings,
        h \in 1..MaxPdIn, w \in 1..MaxPdIn} \cup
    {[op |-> ConvOp("NCHWConv2d", 3, oc, kh, kw, s, p, d, d), shape |-> <<2, 3, h, w>>] :
        oc \in 0..1, kh \in 0..MaxPdK, kw \in 0..MaxPdK, s \in 0..MaxPdStride,
        p \in PdPaddings, d \in 1..MaxPdDil, h \in 1..MaxPdIn, w \in 1..MaxPdIn}

IdlePd ==
    /\ pd_pc = "idle" /\ pd_cls = "" /\ pd_op = <<>> /\ pd_in = <<>>
    /\ pd_cons = <<>> /\ pd_out = <<>>

IdleGroup ==
    /\ rg_pc = "idle" /\ rg_n = 0 /\ rg_k = 0 /\ rg_ret = <<>> /\ rg_err = FALSE

InitGroup ==
    /\ rg_pc = "call"
    /\ rg_n \in 1..MaxN
    /\ rg_k \in 1..rg_n
    /\ rg_ret = <<>>
    /\ rg_err = FALSE
    /\ IdleSkip /\ IdleCov /\ IdleBc /\ IdleCz /\ IdleChk /\ IdleDc /\ IdleEx /\ IdleCv /\ IdleCli /\ IdleLz /\ IdleTv /\ IdleRq /\ IdleRs /\ IdleSl /\ IdleBr /\ IdlePl /\ IdleGm /\ IdleDt /\ IdlePd

RandomGroup ==
    /\ rg_pc = "call"
    /\ \E draws \in [1..(rg_k - 1) -> 0..(rg_n - rg_k)], perm \in Perms(rg_n) :
          LET r == random_group(rg_n, rg_k, draws, perm)
          IN  /\ rg_ret' = r.ret
              /\ rg_err' = r.err
    /\ rg_pc' = "done"
    /\ UNCHANGED <<rg_n, rg_k>>
    /\ UNCHANGED <<skipVars, covVars, bcVars, czVars, chkVars, dcVars, exVars, cvVars, cliVars, lzVars, tvVars, rqVars, rsVars, slVars, brVars, plVars, gmVars, dtVars, pdVars>>

NextGroup == RandomGroup

SpecGroup == InitGroup /\ [][NextGroup]_vars

\* C1: for 1 <= k <= n, random_group(n, k) returns exactly k groups, each
\* non-empty, pairwise disjoint, whose union is {0, ..., n-1}, whatever the
\* random cut points and the random permutation are.
C1_RandomGroupPartition ==
    rg_pc = "done" =>
        /\ ~rg_err
        /\ Len(rg_ret) = rg_k
        /\ \A g \in 1..rg_k : Len(rg_ret[g]) >= 1
        /\ \A g \in 1..rg_k : \A a, b \in 1..Len(rg_ret[g]) :
              rg_ret[g][a] = rg_ret[g][b] => a = b
        /\ \A g, h \in 1..rg_k : g # h => Range(rg_ret[g]) \cap Range(rg_ret[h]) = {}
        /\ UNION {Range(rg_ret[g]) : g \in 1..rg_k} = 0..(rg_n - 1)

\* a call with several groups of unequal sizes has returned
C1_Witness ==
    /\ rg_pc = "done"
    /\ rg_n = MaxN
    /\ rg_k = 2
    /\ Len(rg_ret) = 2
    /\ Len(rg_ret[1]) = MaxN - 1
    /\ Len(rg_ret[2]) = 1

----------------------------------------------------------------------------
(* config_skip_op, called on the catalog as the module defines it; a call  *)
(* that raises ends the process.                                           *)

InitSkip ==
    /\ in_dtypes = InitInDtypes
    /\ _skip = {}
    /\ skip_err = "none"
    /\ skip_cfg = <<>>
    /\ skip_prev = InitInDtypes
    /\ IdleGroup /\ IdleCov /\ IdleBc /\ IdleCz /\ IdleChk /\ IdleDc /\ IdleEx /\ IdleCv /\ IdleCli /\ IdleLz /\ IdleTv /\ IdleRq /\ IdleRs /\ IdleSl /\ IdleBr /\ IdlePl /\ IdleGm /\ IdleDt /\ IdlePd

ConfigSkipOp ==
    /\ skip_err = "none"
    /\ \E cfg \in Configs :
          LET r == config_skip_op(in_dtypes, _skip, cfg)
          IN  /\ in_dtypes' = r.lists
              /\ _skip' = r.skipped
              /\ skip_err' = r.err
              /\ skip_cfg' = cfg
              /\ skip_prev' = in_dtypes
    /\ UNCHANGED <<rgVars, covVars, bcVars, czVars, chkVars, dcVars, exVars, cvVars, cliVars, lzVars, tvVars, rqVars, rsVars, slVars, brVars, plVars, gmVars, dtVars, pdVars>>

NextSkip == ConfigSkipOp

SpecSkip == InitSkip /\ [][NextSkip]_vars

CfgXorGemm == <<"Xor", ",", "Gemm", ":", "int32", ",", "int32", ",", "int32">>
CfgTrt == <<"backend", ":", "trt">>

\* C2: config_skip_op("Xor,Gemm:int32,int32,int32") completes without error;
\* afterwards (int32,int32,int32) is not in Gemm's in_dtypes, Xor is disabled,
\* and every other registered operator's in_dtypes is as before the call.
C2_XorGemmString ==
    (skip_cfg = CfgXorGemm /\ <<"i32", "i32", "i32">> \in Range(OpInDtypes(skip_prev, "Gemm")))
        => /\ skip_err = "none"
           /\ <<"i32", "i32", "i32">> \notin Range(OpInDtypes(in_dtypes, "Gemm"))
           /\ "Xor" \in _skip
           /\ \A i \in 1..Len(ALL_OP_TYPES) :
                 ALL_OP_TYPES[i] # "Gemm" =>
                    OpInDtypes(in_dtypes, ALL_OP_TYPES[i])
                       = OpInDtypes(skip_prev, ALL_OP_TYPES[i])

\* the operators the patterns of a configuration name together with a dtype
\* combination
CombTargets(cfg) ==
    LET ex == ExpandSkip(split(cfg, ","))
    IN  IF ex.err # "none" THEN {}
        ELSE UNION { IF PatternParts(ex.skip[i]).err = "none"
                        /\ PatternParts(ex.skip[i]).comb.kind # "none"
                     THEN Range(filter(ALL_OP_TYPES, PatternParts(ex.skip[i]).name))
                     ELSE {} : i \in 1..Len(ex.skip) }

\* C3: when config_skip_op removes a dtype combination for a matched
\* operator, only that operator's in_dtypes changes: every operator the
\* configuration does not name with a combination, those of the same family
\* included, keeps its whitelist.
C3_OnlyMatchedChanges ==
    \A i \in 1..Len(ALL_OP_TYPES) :
        ALL_OP_TYPES[i] \notin CombTargets(skip_cfg) =>
            OpInDtypes(in_dtypes, ALL_OP_TYPES[i]) = OpInDtypes(skip_prev, ALL_OP_TYPES[i])

\* C4: after config_skip_op("backend:trt") on a catalog that still holds the
\* combinations, Xor is disabled, (bool,bool) is gone from Equal's in_dtypes,
\* (int32,int32,int32) from Gemm's, and every LegacyConstant class is disabled.
C4_TrtSkipList ==
    (/\ skip_cfg = CfgTrt
     /\ <<"b", "b">> \in Range(OpInDtypes(skip_prev, "Equal"))
     /\ <<"i32", "i32", "i32">> \in Range(OpInDtypes(skip_prev, "Gemm")))
        => /\ skip_err = "none"
           /\ "Xor" \in _skip
           /\ <<"b", "b">> \notin Range(OpInDtypes(in_dtypes, "Equal"))
           /\ <<"i32", "i32", "i32">> \notin Range(OpInDtypes(in_dtypes, "Gemm"))
           /\ LegacyConstants \subseteq _skip

----------------------------------------------------------------------------
(* cov_summerize on one run                                                *)

InitCov ==
    /\ cov_pc = "call"
    /\ cov_data \in Runs
    /\ cov_filter \in {"None", "tvm_pass_filter", "ort_pass_filter"}
    /\ cov_tlimit \in TLimits
    /\ cov_ret = <<>>
    /\ IdleGroup /\ IdleSkip /\ IdleBc /\ IdleCz /\ IdleChk /\ IdleDc /\ IdleEx /\ IdleCv /\ IdleCli /\ IdleLz /\ IdleTv /\ IdleRq /\ IdleRs /\ IdleSl /\ IdleBr /\ IdlePl /\ IdleGm /\ IdleDt /\ IdlePd

CovSummerize ==
    /\ cov_pc = "call"
    /\ cov_ret' = cov_summerize(cov_data, cov_filter, cov_tlimit)
    /\ cov_pc' = "done"
    /\ UNCHANGED <<cov_data, cov_filter, cov_tlimit>>
    /\ UNCHANGED <<rgVars, skipVars, bcVars, czVars, chkVars, dcVars, exVars, cvVars, cliVars, lzVars, tvVars, rqVars, rsVars, slVars, brVars, plVars, gmVars, dtVars, pdVars>>

NextCov == CovSummerize

SpecCov == InitCov /\ [][NextCov]_vars

\* the snapshots the loop walks: all of them, or, with a time limit, those
\* up to and including the first whose time is past the limit
Walked ==
    IF \E i \in 1..Len(cov_data) : PastLimit(cov_tlimit, cov_data[i].time)
    THEN CHOOSE i \in 1..Len(cov_data) :
            /\ PastLimit(cov_tlimit, cov_data[i].time)
            /\ \A j \in 1..(i - 1) : ~PastLimit(cov_tlimit, cov_data[j].time)
    ELSE Len(cov_data)

\* the files of snapshot i that pass_filter does not match
KeptFiles(i) ==
    {f \in DOMAIN cov_data[i].merged_cov :
        ~(cov_filter = "tvm_pass_filter" /\ tvm_pass_filter(f))
        /\ ~(cov_filter = "ort_pass_filter" /\ ort_pass_filter(f))}

RECURSIVE SumSizes(_, _, _)
SumSizes(i, files, kind) ==
    IF files = {} THEN 0
    ELSE LET f == CHOOSE x \in files : TRUE
         IN  Cardinality(cov_data[i].merged_cov[f][kind]) + SumSizes(i, files \ {f}, kind)

RECURSIVE SumNModel(_)
SumNModel(i) == IF i = 0 THEN 0 ELSE cov_data[i].n_model + SumNModel(i - 1)

SeriesOk(series, kind) ==
    /\ Len(series) = Walked + 1
    /\ series[1] = <<0, 0, 0>>
    /\ \A i \in 1..Walked :
          series[i + 1] = <<cov_data[i].time, SumNModel(i), SumSizes(i, KeptFiles(i), kind)>>

\* C5: cov_summerize returns three series of equal length, each the origin
\* point [0,0,0] followed by one point per walked snapshot, in order; a point
\* is [snapshot time, running total of n_model, coverage], the coverage being
\* the sum over the snapshot's own unfiltered files of the id-set sizes.
C5_SeriesShape ==
    cov_pc = "done" =>
        /\ SeriesOk(cov_ret.line, "lines")
        /\ SeriesOk(cov_ret.branch, "branches")
        /\ SeriesOk(cov_ret.func, "functions")

\* two snapshots walked, a filtered file among them, coverage not monotone
C5_Witness ==
    /\ cov_pc = "done"
    /\ Len(cov_data) = 2
    /\ cov_filter = "tvm_pass_filter"
    /\ cov_data[1].merged_cov = CovF3
    /\ cov_data[2].merged_cov = CovF1
    /\ Len(cov_ret.line) = 3
    /\ cov_ret.line[2][3] = 5
    /\ cov_ret.line[3][3] = 1

\* the two-snapshot run of the worked example
ExampleRun ==
    << [time |-> 0, n_model |-> 1, merged_cov |-> CovF1],
       [time |-> 10, n_model |-> 3, merged_cov |-> CovF2] >>

ExampleCalled ==
    /\ cov_pc = "done"
    /\ cov_data = ExampleRun
    /\ cov_filter = "None"
    /\ ~cov_tlimit.given

C7_NoPointPastLimit ==
    (cov_pc = "done" /\ cov_tlimit.given) =>
        \A s \in {cov_ret.line, cov_ret.branch, cov_ret.func} :
            \A i \in 1..Len(s) : s[i][1] <= cov_tlimit.val

----------------------------------------------------------------------------
(* The three broadcast constraint functions on a pair of concrete shapes   *)

InitBc ==
    /\ bc_pc = "call"
    /\ bc_lhs \in Shapes
    /\ bc_rhs \in Shapes
    /\ bc_binary = <<>>
    /\ bc_cons = <<>>
    /\ bc_to = <<>>
    /\ IdleGroup /\ IdleSkip /\ IdleCov /\ IdleCz /\ IdleChk /\ IdleDc /\ IdleEx /\ IdleCv /\ IdleCli /\ IdleLz /\ IdleTv /\ IdleRq /\ IdleRs /\ IdleSl /\ IdleBr /\ IdlePl /\ IdleGm /\ IdleDt /\ IdlePd

BroadcastCons ==
    /\ bc_pc = "call"
    /\ bc_binary' = broadcast_cons_binary(<<bc_lhs, bc_rhs>>)
    /\ bc_cons' = broadcast_cons(<<bc_lhs, bc_rhs>>)
    /\ bc_to' = broadcast_to_cons(<<bc_lhs, bc_rhs>>)
    /\ bc_pc' = "done"
    /\ UNCHANGED <<bc_lhs, bc_rhs>>
    /\ UNCHANGED <<rgVars, skipVars, covVars, czVars, chkVars, dcVars, exVars, cvVars, cliVars, lzVars, tvVars, rqVars, rsVars, slVars, brVars, plVars, gmVars, dtVars, pdVars>>

NextBc == BroadcastCons

SpecBc == InitBc /\ [][NextBc]_vars

\* the dimension of shape x at position j from the end, 1 where x is shorter
DimFromEnd(x, j) == IF j < Len(x) THEN x[Len(x) - j] ELSE 1

\* numpy's rule: at every aligned position the sizes are equal or one is 1
NumpyAccepts(a, b) ==
    \A j \in 0..(Maximum({Len(a), Len(b)}) - 1) :
        \/ DimFromEnd(a, j) = DimFromEnd(b, j)
        \/ DimFromEnd(a, j) = 1
        \/ DimFromEnd(b, j) = 1

\* numpy.broadcast_to(a, shape = b) is legal
NumpyBroadcastTo(a, b) ==
    /\ Len(a) <= Len(b)
    /\ \A j \in 0..(Len(b) - 1) :
          DimFromEnd(a, j) = DimFromEnd(b, j) \/ DimFromEnd(a, j) = 1

\* C8: for two concrete shapes with non-negative dimensions: if numpy-style
\* broadcasting accepts them, no constraint of broadcast_cons_binary, of
\* broadcast_cons, or (the second shape being a legal unidirectional target)
\* of broadcast_to_cons is the false literal; if it rejects them, the
\* returned lists contain the false literal.
C8_BroadcastMatchesNumpy ==
    bc_pc = "done" =>
        /\ NumpyAccepts(bc_lhs, bc_rhs) =>
              /\ FALSE \notin Range(bc_binary)
              /\ FALSE \notin Range(bc_cons)
              /\ NumpyBroadcastTo(bc_lhs, bc_rhs) =>
                    (bc_to.err = "none" /\ FALSE \notin Range(bc_to.cons))
        /\ ~NumpyAccepts(bc_lhs, bc_rhs) =>
              /\ FALSE \in Range(bc_binary)
              /\ FALSE \in Range(bc_cons)
              /\ bc_to.err = "none" => FALSE \in Range(bc_to.cons)

----------------------------------------------------------------------------
(* concretize on one instance and one solver model                         *)

InitCz ==
    /\ cz_pc = "call"
    /\ cz_op \in OpInstances
    /\ cz_model \in Models(cz_op)
    /\ cz_ret = <<>>
    /\ IdleGroup /\ IdleSkip /\ IdleCov /\ IdleBc /\ IdleChk /\ IdleDc /\ IdleEx /\ IdleCv /\ IdleCli /\ IdleLz /\ IdleTv /\ IdleRq /\ IdleRs /\ IdleSl /\ IdleBr /\ IdlePl /\ IdleGm /\ IdleDt /\ IdlePd

Concretize ==
    /\ cz_pc = "call"
    /\ cz_ret' = concretize(cz_op, cz_model)
    /\ cz_pc' = "done"
    /\ UNCHANGED <<cz_op, cz_model>>
    /\ UNCHANGED <<rgVars, skipVars, covVars, bcVars, chkVars, dcVars, exVars, cvVars, cliVars, lzVars, tvVars, rqVars, rsVars, slVars, brVars, plVars, gmVars, dtVars, pdVars>>

NextCz == Concretize

SpecCz == InitCz /\ [][NextCz]_vars

\* C9: concretize on an operator that is neither Input nor Constant returns
\* an instance of the same class; every constructor parameter that was a
\* solver expression holds the integer the model assigns to it, every
\* concrete one is unchanged, and inp_ranks, out_ranks, same_inp_dims and
\* extra_attrs equal the original's.
C9_ConcretizeReproduces ==
    (cz_pc = "done" /\ cz_op.cls \notin {"Input", "Constant"}) =>
        /\ cz_ret.cls = cz_op.cls
        /\ Len(cz_ret.args) = Len(cz_op.args)
        /\ \A i \in 1..Len(cz_op.args) :
              /\ cz_op.args[i].k = "sym" =>
                    cz_ret.args[i] = [k |-> "int", v |-> cz_model[cz_op.args[i].v]]
              /\ cz_op.args[i].k = "int" => cz_ret.args[i] = cz_op.args[i]
        /\ cz_ret.inp_ranks = cz_op.inp_ranks
        /\ cz_ret.out_ranks = cz_op.out_ranks
        /\ cz_ret.same_inp_dims = cz_op.same_inp_dims
        /\ cz_ret.extra_attrs = cz_op.extra_attrs

\* a fully symbolic NCHWConv2d has been concretized with a model that gives
\* its parameters different integers
C9_Witness ==
    /\ cz_pc = "done"
    /\ cz_op.cls = "NCHWConv2d"
    /\ \A i \in 1..8 : cz_op.args[i].k = "sym"
    /\ cz_model[1] # cz_model[2]
    /\ cz_ret.args[1].v = cz_model[1]
    /\ cz_ret.args[6].v = cz_model[6]

----------------------------------------------------------------------------
(* checked_type_transfer / checked_requires on one instance.  Every        *)
(* operator constructor leaves at least one output rank domain.            *)

InitChk ==
    /\ chk_pc = "call"
    /\ chk_op \in [inp_ranks : UNION {[1..n -> {int_all}] : n \in 0..MaxIn},
                   out_ranks : UNION {[1..n -> {int_all}] : n \in 1..MaxOut},
                   rule : RuleOutcomes,
                   last_outs : {-1}]
    /\ chk_n_in \in 0..MaxIn
    /\ chk_res = <<>>
    /\ IdleGroup /\ IdleSkip /\ IdleCov /\ IdleBc /\ IdleCz /\ IdleDc /\ IdleEx /\ IdleCv /\ IdleCli /\ IdleLz /\ IdleTv /\ IdleRq /\ IdleRs /\ IdleSl /\ IdleBr /\ IdlePl /\ IdleGm /\ IdleDt /\ IdlePd

CheckedTypeTransfer ==
    /\ chk_pc = "call"
    /\ chk_op' = checked_type_transfer(chk_op, chk_n_in).op
    /\ chk_res' = checked_type_transfer(chk_op, chk_n_in).res
    /\ chk_pc' = "done"
    /\ UNCHANGED chk_n_in
    /\ UNCHANGED <<rgVars, skipVars, covVars, bcVars, czVars, dcVars, exVars, cvVars, cliVars, lzVars, tvVars, rqVars, rsVars, slVars, brVars, plVars, gmVars, dtVars, pdVars>>

CheckedRequires ==
    /\ chk_pc = "call"
    /\ \E req \in RuleOutcomes :
          chk_res' = checked_requires(chk_op, chk_n_in, req)
    /\ chk_pc' = "done"
    /\ UNCHANGED <<chk_op, chk_n_in>>
    /\ UNCHANGED <<rgVars, skipVars, covVars, bcVars, czVars, dcVars, exVars, cvVars, cliVars, lzVars, tvVars, rqVars, rsVars, slVars, brVars, plVars, gmVars, dtVars, pdVars>>

NextChk == CheckedTypeTransfer \/ CheckedRequires

SpecChk == InitChk /\ [][NextChk]_vars

\* C10: checked_type_transfer fails with the internal-invariant error
\* whenever the number of inputs supplied differs from len(inp_ranks) or the
\* number of outputs the inference rule produces differs from
\* len(out_ranks), and otherwise returns exactly len(out_ranks) outputs;
\* checked_requires fails the same way on an input-count mismatch.
C10_CountChecks ==
    chk_pc = "done" =>
        /\ chk_res.method = "type_transfer" =>
              IF chk_n_in # Len(chk_op.inp_ranks)
                 \/ (chk_op.rule.kind = "outs" /\ chk_op.rule.n # Len(chk_op.out_ranks))
              THEN chk_res.kind = "SanityError"
              ELSE chk_op.rule.kind = "outs" =>
                      (chk_res.kind = "return" /\ chk_res.n = Len(chk_op.out_ranks))
        /\ chk_res.method = "requires" =>
              (chk_n_in # Len(chk_op.inp_ranks) => chk_res.kind = "SanityError")

\* one call rejected for its input count, by an instance whose rule would
\* have produced the right number of outputs
C10_Witness ==
    /\ chk_pc = "done"
    /\ chk_res.method = "type_transfer"
    /\ Len(chk_op.inp_ranks) = 2
    /\ chk_n_in = 3
    /\ chk_op.rule = [kind |-> "outs", n |-> 1]
    /\ Len(chk_op.out_ranks) = 1
    /\ chk_res.kind = "SanityError"

----------------------------------------------------------------------------
(* one public call on caller-owned tensors                                  *)

InitDc ==
    /\ dc_pc = "call"
    /\ \E c \in DcCallerStates :
          /\ dc_heap = c.heap
          /\ dc_inputs = c.inputs
          /\ dc_before = TensorView(c.heap, c.inputs)
    /\ dc_call = <<>>
    /\ IdleSkip /\ IdleCov /\ IdleBc /\ IdleCz /\ IdleChk /\ IdleGroup /\ IdleEx /\ IdleCv /\ IdleCli /\ IdleLz /\ IdleTv /\ IdleRq /\ IdleRs /\ IdleSl /\ IdleBr /\ IdlePl /\ IdleGm /\ IdleDt /\ IdlePd

DcCheckedTypeTransfer ==
    /\ dc_pc = "call"
    /\ \E op \in DcOps, axis \in 0..(MaxDcRank - 1), alias \in BOOLEAN :
          LET r == DcCheckShape(op, dc_heap, dc_inputs, axis, alias) IN
          /\ dc_heap' = r.heap
          /\ dc_call' = [method |-> "type_transfer", op |-> op, alias |-> alias,
                         kind |-> r.kind]
    /\ dc_pc' = "done"
    /\ UNCHANGED <<dc_inputs, dc_before>>
    /\ UNCHANGED <<rgVars, skipVars, covVars, bcVars, czVars, chkVars, exVars, cvVars, cliVars, lzVars, tvVars, rqVars, rsVars, slVars, brVars, plVars, gmVars, dtVars, pdVars>>

DcCheckedRequires ==
    /\ dc_pc = "call"
    /\ \E op \in DcOps :
          LET r == DcCheckRequire(op, dc_heap, dc_inputs) IN
          /\ dc_heap' = r.heap
          /\ dc_call' = [method |-> "requires", op |-> op, alias |-> FALSE,
                         kind |-> r.kind]
    /\ dc_pc' = "done"
    /\ UNCHANGED <<dc_inputs, dc_before>>
    /\ UNCHANGED <<rgVars, skipVars, covVars, bcVars, czVars, chkVars, exVars, cvVars, cliVars, lzVars, tvVars, rqVars, rsVars, slVars, brVars, plVars, gmVars, dtVars, pdVars>>

NextDc == DcCheckedTypeTransfer \/ DcCheckedRequires

SpecDc == InitDc /\ [][NextDc]_vars

\* C11: after checked_type_transfer or checked_requires returns or raises,
\* every caller-supplied input tensor has the same shape sequence and the
\* same dtype as before the call.
C11_InputsNotMutated ==
    dc_pc = "done" => TensorView(dc_heap, dc_inputs) = dc_before

\* Concat's rule has overwritten a dimension of the list it was handed (the
\* copy), and the call returned
C11_Witness ==
    /\ dc_pc = "done"
    /\ dc_call.method = "type_transfer"
    /\ dc_call.op.cls = "Concat"
    /\ dc_call.alias
    /\ dc_call.kind = "return"
    /\ Len(dc_inputs) = 2
    /\ dc_heap[Len(dc_heap) - 1] # dc_heap[dc_inputs[1].shape]

----------------------------------------------------------------------------
(* ExpandLastK(expand_n) applied to one input                               *)

InitEx ==
    /\ ex_pc = "call"
    /\ ex_k \in ExpandLastK
    /\ ex_n \in 1..MaxExDim
    /\ ex_in \in ExShapes
    /\ ex_out = <<>>
    /\ IdleSkip /\ IdleCov /\ IdleBc /\ IdleCz /\ IdleChk /\ IdleDc /\ IdleGroup /\ IdleCv /\ IdleCli /\ IdleLz /\ IdleTv /\ IdleRq /\ IdleRs /\ IdleSl /\ IdleBr /\ IdlePl /\ IdleGm /\ IdleDt /\ IdlePd

ExpandTypeTransfer ==
    /\ ex_pc = "call"
    /\ ex_out' = ExpandShape(ex_k, ex_n, ex_in)
    /\ ex_pc' = "done"
    /\ UNCHANGED <<ex_k, ex_n, ex_in>>
    /\ UNCHANGED <<rgVars, skipVars, covVars, bcVars, czVars, chkVars, dcVars, cvVars, cliVars, lzVars, tvVars, rqVars, rsVars, slVars, brVars, plVars, gmVars, dtVars, pdVars>>

NextEx == ExpandTypeTransfer

SpecEx == InitEx /\ [][NextEx]_vars

\* C12: ExpandLastK(expand_n) on an input of rank r gives rank max(r, K)
\* with expand_n K positions from the end; when r >= K the other dimensions
\* are the input's, and when r < K the output is expand_n, K-r-1 ones, then
\* the input's dimensions.  ExpandLast4(2) on (4,1) gives (2,1,4,1) and
\* ExpandLast1(2) on (4,1) gives (4,2).
C12_ExpandLastK ==
    ex_pc = "done" =>
        LET r == Len(ex_in)
            o == Len(ex_out)
        IN  /\ o = IF r >= ex_k THEN r ELSE ex_k
            /\ ex_out[o - ex_k + 1] = ex_n
            /\ r >= ex_k =>
                  \A i \in 1..r : i # r - ex_k + 1 => ex_out[i] = ex_in[i]
            /\ r < ex_k =>
                  /\ \A i \in 2..(ex_k - r) : ex_out[i] = 1
                  /\ \A i \in 1..r : ex_out[ex_k - r + i] = ex_in[i]
            /\ (ex_k = 4 /\ ex_n = 2 /\ ex_in = <<4, 1>>) => ex_out = <<2, 1, 4, 1>>
            /\ (ex_k = 1 /\ ex_n = 2 /\ ex_in = <<4, 1>>) => ex_out = <<4, 2>>

\* the worked example: ExpandLast4(2) on (4,1)
C12_Witness ==
    /\ ex_pc = "done"
    /\ ex_k = 4 /\ ex_n = 2 /\ ex_in = <<4, 1>>
    /\ ex_out = <<2, 1, 4, 1>>

----------------------------------------------------------------------------
(* shape inference of one pooling or convolution instance                   *)

InitCv ==
    /\ cv_pc = "call"
    /\ \E c \in ConvCalls : cv_op = c.op /\ cv_in = c.shape
    /\ cv_out = <<>>
    /\ IdleSkip /\ IdleCov /\ IdleBc /\ IdleCz /\ IdleChk /\ IdleEx /\ IdleDc /\ IdleGroup /\ IdleCli /\ IdleLz /\ IdleTv /\ IdleRq /\ IdleRs /\ IdleSl /\ IdleBr /\ IdlePl /\ IdleGm /\ IdleDt /\ IdlePd

ConvTypeTransfer ==
    /\ cv_pc = "call"
    /\ cv_out' = ConvTypeTransferOf(cv_op, cv_in)
    /\ cv_pc' = "done"
    /\ UNCHANGED <<cv_op, cv_in>>
    /\ UNCHANGED <<rgVars, skipVars, covVars, bcVars, czVars, chkVars, dcVars, exVars, cliVars, lzVars, tvVars, rqVars, rsVars, slVars, brVars, plVars, gmVars, dtVars, pdVars>>

NextCv == ConvTypeTransfer

SpecCv == InitCv /\ [][NextCv]_vars

\* floor((in - effective_kernel + 2*padding)/stride) + 1 with
\* effective_kernel = kernel + (dilation-1)*(kernel-1), written out
C13_Expected(in, kernel, dilation, padding, stride) ==
    LET effective_kernel == kernel + (dilation - 1) * (kernel - 1)
        num == in - effective_kernel + 2 * padding
        q == CHOOSE q \in -(MaxK * MaxDil)..(24 + 2 * MaxPad) :
                q * stride <= num /\ num < (q + 1) * stride
    IN  q + 1

\* C13: for Pool2d, Conv1d and NCHWConv2d with concrete parameters each
\* inferred output spatial size is floor((in - effective_kernel +
\* 2*padding)/stride) + 1 (dilation 1 for pooling); the batch dimension is
\* copied, the channel dimension is copied for pooling and is out_channels
\* for convolution; kernel 3x4, stride 1, padding 1 on (2,3,24,24) with 3
\* output channels gives (2,3,24,23).
C13_ConvOutputSize ==
    cv_pc = "done" =>
        /\ Len(cv_out) = Len(cv_in)
        /\ cv_out[1] = cv_in[1]
        /\ cv_out[2] = IF cv_op.cls = "Pool2d" THEN cv_in[2] ELSE cv_op.out_channels
        /\ cv_out[3] = C13_Expected(cv_in[3], cv_op.kernel_h_size,
                                    IF cv_op.cls = "Pool2d" THEN 1 ELSE cv_op.dilation_h,
                                    cv_op.padding, cv_op.stride)
        /\ Len(cv_in) = 4 =>
              cv_out[4] = C13_Expected(cv_in[4], cv_op.kernel_w_size,
                                       IF cv_op.cls = "Pool2d" THEN 1 ELSE cv_op.dilation_w,
                                       cv_op.padding, cv_op.stride)
        /\ (cv_op = ConvOp("NCHWConv2d", 3, 3, 3, 4, 1, 1, 1, 1) /\ cv_in = <<2, 3, 24, 24>>)
              => cv_out = <<2, 3, 24, 23>>

\* a dilated convolution with stride 2 whose division is not exact
C13_Witness ==
    /\ cv_pc = "done"
    /\ cv_op.cls = "NCHWConv2d"
    /\ cv_op.dilation_h = 2 /\ cv_op.kernel_h_size = 2 /\ cv_op.stride = 2
    /\ cv_op.padding = 0
    /\ cv_in[3] = 24
    /\ cv_out[3] = 11
    /\ cv_out[2] = 5

----------------------------------------------------------------------------
(* one run of the backend-execution command, statement by statement         *)

InitCli ==
    /\ cli_pc = "load"
    /\ cli_args \in CliArgs
    /\ cli_inputs = "unset"
    /\ cli_oracle = NoOutputs
    /\ cli_this = NoOutputs
    /\ cli_log = <<>>
    /\ cli_exit = "running"
    /\ IdleSkip /\ IdleCov /\ IdleBc /\ IdleCz /\ IdleChk /\ IdleEx /\ IdleDc /\ IdleCv /\ IdleGroup /\ IdleLz /\ IdleTv /\ IdleRq /\ IdleRs /\ IdleSl /\ IdleBr /\ IdlePl /\ IdleGm /\ IdleDt /\ IdlePd

\* lines 119-120: onnx.load and check_model
CliLoadModel ==
    /\ cli_pc = "load"
    /\ \E ok \in BOOLEAN :
          IF ok THEN cli_pc' = "inputs" /\ cli_exit' = "running"
                ELSE cli_pc' = "end" /\ cli_exit' = "raised"
    /\ UNCHANGED <<cli_args, cli_inputs, cli_oracle, cli_this, cli_log>>
    /\ UNCHANGED <<rgVars, skipVars, covVars, bcVars, czVars, chkVars, dcVars, exVars, cvVars, lzVars, tvVars, rqVars, rsVars, slVars, brVars, plVars, gmVars, dtVars, pdVars>>

\* lines 123-138: the oracle file holds inputs and expected outputs
CliInputs ==
    /\ cli_pc = "inputs"
    /\ cli_inputs' = TestInputsOf(cli_args)
    /\ IF cli_args.oracle
       THEN \E v \in 1..MaxOutVal, i \in BOOLEAN :
               cli_oracle' = [src |-> "oracle", v |-> v, invalid |-> i]
       ELSE cli_oracle' = NoOutputs
    /\ cli_pc' = "reference"
    /\ UNCHANGED <<cli_args, cli_this, cli_log, cli_exit>>
    /\ UNCHANGED <<rgVars, skipVars, covVars, bcVars, czVars, chkVars, dcVars, exVars, cvVars, lzVars, tvVars, rqVars, rsVars, slVars, brVars, plVars, gmVars, dtVars, pdVars>>

\* lines 142-148: the reference backend
CliReference ==
    /\ cli_pc = "reference"
    /\ IF cli_args.cmp_with = "None"
       THEN /\ cli_pc' = "target"
            /\ UNCHANGED <<cli_oracle, cli_log, cli_exit>>
       ELSE LET cls == MakeBackend(cli_args.cmp_with) IN
            IF cls \in {"KeyError", "ValueError"}
            THEN /\ cli_pc' = "end" /\ cli_exit' = "raised"
                 /\ cli_log' = Append(cli_log, cls)
                 /\ UNCHANGED cli_oracle
            ELSE \E r \in PredictOutcomes(cls, "reference") :
                    CASE r.kind = "raise" ->
                            /\ cli_pc' = "end" /\ cli_exit' = "raised"
                            /\ cli_log' = Append(cli_log, "raise")
                            /\ UNCHANGED cli_oracle
                      [] r.kind = "hang" ->
                            /\ cli_pc' = "hung"
                            /\ UNCHANGED <<cli_oracle, cli_log, cli_exit>>
                      [] OTHER ->
                            /\ cli_oracle' = r.out
                            /\ cli_log' = cli_log \o <<"reference">> \o
                                  (IF is_invalid(r.out) THEN <<"warn_reference">> ELSE <<>>)
                            /\ cli_pc' = "target"
                            /\ UNCHANGED cli_exit
    /\ UNCHANGED <<cli_args, cli_inputs, cli_this>>
    /\ UNCHANGED <<rgVars, skipVars, covVars, bcVars, czVars, chkVars, dcVars, exVars, cvVars, lzVars, tvVars, rqVars, rsVars, slVars, brVars, plVars, gmVars, dtVars, pdVars>>

\* lines 151-154: this backend
CliTarget ==
    /\ cli_pc = "target"
    /\ LET cls == MakeBackend(cli_args.backend) IN
       IF cls \in {"KeyError", "ValueError"}
       THEN /\ cli_pc' = "end" /\ cli_exit' = "raised"
            /\ cli_log' = Append(cli_log, cls)
            /\ UNCHANGED cli_this
       ELSE \E r \in PredictOutcomes(cls, "target") :
               CASE r.kind = "raise" ->
                       /\ cli_pc' = "end" /\ cli_exit' = "raised"
                       /\ cli_log' = Append(cli_log, "raise")
                       /\ UNCHANGED cli_this
                 [] r.kind = "hang" ->
                       /\ cli_pc' = "hung"
                       /\ UNCHANGED <<cli_this, cli_log, cli_exit>>
                 [] OTHER ->
                       /\ cli_this' = r.out
                       /\ cli_log' = cli_log \o <<"target">> \o
                             (IF is_invalid(r.out) THEN <<"warn_target">> ELSE <<>>)
                       /\ cli_pc' = "compare"
                       /\ UNCHANGED cli_exit
    /\ UNCHANGED <<cli_args, cli_inputs, cli_oracle>>
    /\ UNCHANGED <<rgVars, skipVars, covVars, bcVars, czVars, chkVars, dcVars, exVars, cvVars, lzVars, tvVars, rqVars, rsVars, slVars, brVars, plVars, gmVars, dtVars, pdVars>>

\* lines 157-160
CliCompare ==
    /\ cli_pc = "compare"
    /\ IF HasOracle(cli_oracle)
       THEN IF assert_allclose(cli_this, cli_oracle)
            THEN /\ cli_log' = cli_log \o <<"compare", "passed">>
                 /\ cli_pc' = "dump"
                 /\ UNCHANGED cli_exit
            ELSE /\ cli_log' = cli_log \o <<"compare", "mismatch">>
                 /\ cli_pc' = AfterMismatch.pc /\ cli_exit' = AfterMismatch.exit
       ELSE /\ cli_pc' = "dump"
            /\ UNCHANGED <<cli_log, cli_exit>>
    /\ UNCHANGED <<cli_args, cli_inputs, cli_oracle, cli_this>>
    /\ UNCHANGED <<rgVars, skipVars, covVars, bcVars, czVars, chkVars, dcVars, exVars, cvVars, lzVars, tvVars, rqVars, rsVars, slVars, brVars, plVars, gmVars, dtVars, pdVars>>

\* lines 162-166
CliDump ==
    /\ cli_pc = "dump"
    /\ cli_log' = cli_log \o (IF cli_args.dump_raw THEN <<"dump">> ELSE <<>>) \o <<"total">>
    /\ cli_pc' = "end"
    /\ cli_exit' = "exit0"
    /\ UNCHANGED <<cli_args, cli_inputs, cli_oracle, cli_this>>
    /\ UNCHANGED <<rgVars, skipVars, covVars, bcVars, czVars, chkVars, dcVars, exVars, cvVars, lzVars, tvVars, rqVars, rsVars, slVars, brVars, plVars, gmVars, dtVars, pdVars>>

NextCli == CliLoadModel \/ CliInputs \/ CliReference \/ CliTarget \/ CliCompare \/ CliDump

SpecCli == InitCli /\ [][NextCli]_vars

Logged(ev) == \E i \in 1..Len(cli_log) : cli_log[i] = ev

\* C14: BackendCreator resolves each of the three stub names ('crash': predict
\* always raises, 'hang': predict never returns, the empty-result stub:
\* predict returns an empty mapping); none of them is rejected as unknown.
C14_StubNamesResolve ==
    (cli_args.cmp_with = "None" /\ cli_args.backend \in StubNames) =>
        ~(Logged("KeyError") \/ Logged("ValueError"))

\* C15: test inputs come from the oracle file when one is given, otherwise
\* from the raw-input file when one is given, otherwise they are generated
\* from the seed; the reference backend (--cmp_with) produces the expected
\* outputs only when no oracle file was given, so expected outputs loaded
\* from an oracle file are the ones used in the comparison.
C15_InputPriorityAndOracle ==
    /\ cli_inputs # "unset" =>
          cli_inputs = IF cli_args.oracle THEN "oracle"
                       ELSE IF cli_args.raw_input THEN "raw_input" ELSE "generated"
    /\ cli_oracle.src = "reference" => ~cli_args.oracle
    /\ (Logged("compare") /\ cli_args.oracle) => cli_oracle.src = "oracle"

Pos(ev) == CHOOSE i \in 1..Len(cli_log) : cli_log[i] = ev

AfterCompare == cli_pc = "dump" \/ (cli_pc = "end" /\ (Logged("compare") \/ Logged("total")))

\* C16: a reference or target output with NaN/Inf causes only a warning and
\* the run continues; the comparison runs if and only if expected outputs
\* are available, always after both backends have run; a mismatch ends the
\* run with a failure and the success message is not printed.
C16_WarnCompareFail ==
    /\ (Len(cli_log) > 0 /\ cli_log[Len(cli_log)] = "warn_reference") =>
          (cli_exit = "running" /\ cli_pc = "target" /\ cli_oracle.src = "reference")
    /\ (Len(cli_log) > 0 /\ cli_log[Len(cli_log)] = "warn_target") =>
          (cli_exit = "running" /\ cli_pc \in {"compare", "dump"})
    /\ AfterCompare => (Logged("compare") <=> cli_oracle # NoOutputs)
    /\ Logged("compare") =>
          /\ Logged("target") /\ Pos("target") < Pos("compare")
          /\ cli_args.cmp_with # "None" =>
                (Logged("reference") /\ Pos("reference") < Pos("target"))
    /\ Logged("mismatch") =>
          (cli_exit = "raised" /\ cli_pc = "end" /\ ~Logged("passed") /\ ~Logged("total"))
    /\ Logged("passed") => assert_allclose(cli_this, cli_oracle)

\* a run in which both backends warned, the comparison ran after them and
\* failed
C16_Witness ==
    /\ Logged("warn_reference") /\ Logged("warn_target")
    /\ Logged("mismatch")
    /\ cli_exit = "raised"

----------------------------------------------------------------------------
(* calls of checked_type_transfer / checked_requires on one instance        *)

InitLz ==
    /\ lz_op \in LzInstances
    /\ lz_calls = 0
    /\ lz_method = "none"
    /\ lz_in = <<>>
    /\ lz_out = <<>>
    /\ lz_before = {}
    /\ IdleSkip /\ IdleCov /\ IdleBc /\ IdleCz /\ IdleChk /\ IdleEx /\ IdleDc /\ IdleCv /\ IdleCli /\ IdleGroup /\ IdleTv /\ IdleRq /\ IdleRs /\ IdleSl /\ IdleBr /\ IdlePl /\ IdleGm /\ IdleDt /\ IdlePd

LzCheckedTypeTransfer ==
    /\ lz_op # <<>>
    /\ lz_calls < MaxLzCalls
    /\ \E shape \in LzShapes :
       \E pick \in (IF Len(shape) = 0 THEN {NoPick} ELSE LzPicks(lz_op.cls, Len(shape))) :
          LET r == LzTypeTransfer(lz_op, shape, "f32", pick) IN
          /\ lz_op' = r.op
          /\ lz_out' = r.out
          /\ lz_in' = shape
    /\ lz_before' = lz_op.extra_attrs
    /\ lz_method' = "type_transfer"
    /\ lz_calls' = lz_calls + 1
    /\ UNCHANGED <<rgVars, skipVars, covVars, bcVars, czVars, chkVars, dcVars, exVars, cvVars, cliVars, tvVars, rqVars, rsVars, slVars, brVars, plVars, gmVars, dtVars, pdVars>>

LzCheckedRequires ==
    /\ lz_op # <<>>
    /\ lz_calls < MaxLzCalls
    /\ \E shape \in LzShapes :
       \E pick \in (IF Len(shape) = 0 THEN {NoPick} ELSE LzPicks(lz_op.cls, Len(shape))) :
          LET r == LzRequires(lz_op, shape, "f32", pick) IN
          /\ lz_op' = r.op
          /\ lz_out' = r.out
          /\ lz_in' = shape
    /\ lz_before' = lz_op.extra_attrs
    /\ lz_method' = "requires"
    /\ lz_calls' = lz_calls + 1
    /\ UNCHANGED <<rgVars, skipVars, covVars, bcVars, czVars, chkVars, dcVars, exVars, cvVars, cliVars, tvVars, rqVars, rsVars, slVars, brVars, plVars, gmVars, dtVars, pdVars>>

NextLz == LzCheckedTypeTransfer \/ LzCheckedRequires

SpecLz == InitLz /\ [][NextLz]_vars

\* C17: a Reduce-family operator applied to an input of rank r >= 1 gives
\* the input shape with exactly the chosen reduce axis removed (rank r-1,
\* the other dimensions in order); for a rank-0 input the reduce axis is
\* absent, the output has rank 0 and Squeeze's constraint list is empty.
C17_ReduceRemovesAxis ==
    (lz_method # "none" /\ lz_op.cls \in ReduceClasses) =>
        LET r == Len(lz_in)
            rd == GetAttr(lz_op.extra_attrs, "reduce_dim")
        IN  /\ (lz_method = "type_transfer" /\ r >= 1) =>
                  /\ lz_out.kind = "return"
                  /\ rd.s # "None" /\ rd.n \in 0..(r - 1)
                  /\ Len(lz_out.shape) = r - 1
                  /\ \A i \in 1..(r - 1) :
                        lz_out.shape[i] = lz_in[IF i <= rd.n THEN i ELSE i + 1]
            /\ (lz_method = "type_transfer" /\ r = 0) =>
                  /\ lz_out.kind = "return" /\ lz_out.shape = <<>>
                  /\ HasAttr(lz_op.extra_attrs, "reduce_dim") => rd.s = "None"
            /\ (lz_method = "requires" /\ r = 0 /\ lz_op.cls = "Squeeze") =>
                  (lz_out.kind = "return" /\ lz_out.cons = <<>> /\ rd.s = "None")

\* the attributes the claim names
LazyKeys == {"axis", "region", "dim0", "dim1", "reduce_dim"}

\* C19: for Slice (axis, region), Transpose (dim0, dim1) and the Reduce
\* family (reduce_dim): once a checked_type_transfer or checked_requires call
\* has resolved the attribute, every later call on the instance, of either
\* method and with any input, leaves its value unchanged.
C19_LazyAttrsStable ==
    /\ \A a \in lz_before : a.key \in LazyKeys => a \in lz_op.extra_attrs
    /\ \A a \in lz_op.extra_attrs, b \in lz_op.extra_attrs : a.key = b.key => a = b

\* a Slice whose axis was resolved for a rank-3 input has since been called
\* with a rank-1 input, which its axis does not fit
C19_Witness ==
    /\ lz_calls = 2
    /\ lz_op.cls = "Slice"
    /\ IntAttr("ndims", 3) \in lz_before
    /\ IntAttr("axis", 2) \in lz_before
    /\ Len(lz_in) = 1
    /\ lz_out.kind = "IndexError"
    /\ IntAttr("axis", 2) \in lz_op.extra_attrs

----------------------------------------------------------------------------
(* one call of the callable returned by TVMFactory.mk_backend               *)

InitTv ==
    /\ tv_pc = "call"
    /\ tv_names \in UNION {DistinctSeqs(TvNames, n) : n \in 1..MaxTvOutputs}
    /\ tv_output \in TvOutputs
    /\ tv_ret = <<>>
    /\ IdleSkip /\ IdleCov /\ IdleBc /\ IdleCz /\ IdleChk /\ IdleEx /\ IdleDc /\ IdleCv /\ IdleCli /\ IdleLz /\ IdleGroup /\ IdleRq /\ IdleRs /\ IdleSl /\ IdleBr /\ IdlePl /\ IdleGm /\ IdleDt /\ IdlePd

TvClosure ==
    /\ tv_pc = "call"
    /\ tv_ret' = closure(tv_names, tv_output)
    /\ tv_pc' = "done"
    /\ UNCHANGED <<tv_names, tv_output>>
    /\ UNCHANGED <<rgVars, skipVars, covVars, bcVars, czVars, chkVars, dcVars, exVars, cvVars, cliVars, lzVars, rqVars, rsVars, slVars, brVars, plVars, gmVars, dtVars, pdVars>>

NextTv == TvClosure

SpecTv == InitTv /\ [][NextTv]_vars

\* C18: the callable returned by mk_backend pairs the declared output names,
\* in declaration order, with the executor's result tensors in the same
\* order, one entry per declared output (the executor returning one tensor
\* per declared output); a single non-list result is wrapped as a
\* one-element list and a None result is rejected by an assertion.
C18_TvmResultMapping ==
    tv_pc = "done" =>
        /\ tv_output.kind = "None" <=> tv_ret.err = "AssertionError"
        /\ (tv_output.kind # "None" /\ Len(tv_output.items) = Len(tv_names)) =>
              /\ Len(tv_ret.map) = Len(tv_names)
              /\ \A i \in 1..Len(tv_names) :
                    tv_ret.map[i] = <<tv_names[i], numpy(tv_output.items[i])>>
        /\ tv_output.kind = "tensor" =>
              (Len(tv_ret.map) = 1 /\ tv_ret.map[1][2] = numpy(tv_output.items[1]))

\* two declared outputs paired with two different result tensors
C18_Witness ==
    /\ tv_pc = "done"
    /\ tv_names = <<"o2", "o1">>
    /\ tv_output.kind = "list"
    /\ tv_ret.map = <<<<"o2", numpy(DeviceTensor(1))>>, <<"o1", numpy(DeviceTensor(2))>>>>

----------------------------------------------------------------------------
(* the legality constraints of one convolution under one assignment         *)

InitRq ==
    /\ rq_pc = "call"
    /\ \E c \in RqCalls : rq_op = c.op /\ rq_in = c.shape
    /\ rq_flops \in BOOLEAN
    /\ rq_cons = <<>>
    /\ IdleSkip /\ IdleCov /\ IdleBc /\ IdleCz /\ IdleChk /\ IdleEx /\ IdleDc /\ IdleCv /\ IdleCli /\ IdleLz /\ IdleTv /\ IdleGroup /\ IdleRs /\ IdleSl /\ IdleBr /\ IdlePl /\ IdleGm /\ IdleDt /\ IdlePd

ConvRequires ==
    /\ rq_pc = "call"
    /\ rq_cons' = ConvRequiresOf(rq_op, rq_in, rq_flops)
    /\ rq_pc' = "done"
    /\ UNCHANGED <<rq_op, rq_in, rq_flops>>
    /\ UNCHANGED <<rgVars, skipVars, covVars, bcVars, czVars, chkVars, dcVars, exVars, cvVars, cliVars, lzVars, tvVars, rsVars, slVars, brVars, plVars, gmVars, dtVars, pdVars>>

NextRq == ConvRequires

SpecRq == InitRq /\ [][NextRq]_vars

Satisfied == rq_pc = "done" /\ \A i \in 1..Len(rq_cons) : rq_cons[i]

\* C20: every integer assignment that satisfies the legality constraints of
\* Conv1d or NCHWConv2d has kernel size >= 1 on every spatial axis, stride
\* >= 1, 0 <= padding <= 255, dilation >= 1, and effective kernel <= input
\* size + 2*padding on every spatial axis.
C20_ConvLegality ==
    Satisfied =>
        /\ rq_op.kernel_h_size >= 1 /\ rq_op.kernel_w_size >= 1
        /\ rq_op.stride >= 1
        /\ rq_op.padding >= 0 /\ rq_op.padding <= 255
        /\ rq_op.dilation_h >= 1 /\ rq_op.dilation_w >= 1
        /\ rq_op.kernel_h_size + (rq_op.dilation_h - 1) * (rq_op.kernel_h_size - 1)
              <= rq_in[3] + 2 * rq_op.padding
        /\ Len(rq_in) = 4 =>
              rq_op.kernel_w_size + (rq_op.dilation_w - 1) * (rq_op.kernel_w_size - 1)
                 <= rq_in[4] + 2 * rq_op.padding

\* a satisfying assignment with a dilated kernel that exactly fills the
\* padded input on one axis
C20_Witness ==
    /\ Satisfied
    /\ rq_op.cls = "NCHWConv2d"
    /\ rq_op.kernel_h_size = 2 /\ rq_op.dilation_h = 2 /\ rq_op.padding = 1
    /\ rq_in[3] = 1
    /\ rq_flops

----------------------------------------------------------------------------
(* Reshape.checked_requires on one integer assignment                       *)

InitRs ==
    /\ rs_pc = "call"
    /\ rs_in \in RsShapes
    /\ rs_target \in RsShapes
    /\ rs_env \in [NNSMITH_GRES : {"3", "4", "5"}, NNSMITH_CONS_RESHAPE : BOOLEAN]
    /\ rs_ng = 0 /\ rs_src_group = <<>> /\ rs_dst_group = <<>> /\ rs_cons = <<>>
    /\ IdleSkip /\ IdleCov /\ IdleBc /\ IdleCz /\ IdleChk /\ IdleEx /\ IdleDc /\ IdleCv /\ IdleCli /\ IdleLz /\ IdleTv /\ IdleRq /\ IdleGroup /\ IdleSl /\ IdleBr /\ IdlePl /\ IdleGm /\ IdleDt /\ IdlePd

ReshapeRequires ==
    /\ rs_pc = "call"
    /\ \E ng \in GroupCounts(rs_env.NNSMITH_GRES, ScalarLen(Len(rs_in)), ScalarLen(Len(rs_target))) :
       \E src_group \in RandomGroups(ScalarLen(Len(rs_in)), ng),
          dst_group \in RandomGroups(ScalarLen(Len(rs_target)), ng) :
          /\ rs_ng' = ng
          /\ rs_src_group' = src_group
          /\ rs_dst_group' = dst_group
          /\ rs_cons' = Reshape_requires(rs_in, rs_target, src_group, dst_group,
                                         rs_env.NNSMITH_CONS_RESHAPE)
    /\ rs_pc' = "done"
    /\ UNCHANGED <<rs_in, rs_target, rs_env>>
    /\ UNCHANGED <<rgVars, skipVars, covVars, bcVars, czVars, chkVars, dcVars, exVars, cvVars, cliVars, lzVars, tvVars, rqVars, slVars, brVars, plVars, gmVars, dtVars, pdVars>>

NextRs == ReshapeRequires

SpecRs == InitRs /\ [][NextRs]_vars

RsSatisfied == rs_pc = "done" /\ \A i \in 1..Len(rs_cons) : rs_cons[i]

\* C21: every integer assignment that satisfies the constraints returned by
\* Reshape.checked_requires makes the product of the target dimensions equal
\* to the product of the input dimensions (a rank-0 side counting as product
\* 1), for every group count ng and every pair of groupings random_group can
\* draw.
C21_ReshapeKeepsElementCount ==
    RsSatisfied => ProdOf(rs_target) = ProdOf(rs_in)

\* two groups, each pairing an input axis with a target axis of another
\* position, under a satisfying assignment
C21_Witness ==
    /\ RsSatisfied
    /\ rs_ng = 2
    /\ rs_in = <<1, 2>> /\ rs_target = <<2, 1>>

----------------------------------------------------------------------------
(* one Slice: legality, shape inference, then the execution hook            *)

InitSl ==
    /\ sl_done = {}
    /\ sl_op \in SlOps
    /\ sl_in \in SlShapes
    /\ sl_cons = <<>>
    /\ sl_out = NoSlOut
    /\ sl_sel = NoSlOut
    /\ IdleSkip /\ IdleCov /\ IdleBc /\ IdleCz /\ IdleChk /\ IdleEx /\ IdleDc /\ IdleCv /\ IdleCli /\ IdleLz /\ IdleTv /\ IdleRq /\ IdleRs /\ IdleGroup /\ IdleBr /\ IdlePl /\ IdleGm /\ IdleDt /\ IdlePd

SliceRequires ==
    /\ "requires" \notin sl_done
    /\ "torch" \notin sl_done
    /\ \E pick \in SlicePicks(Len(sl_in)) :
          LET op == Slice_get_attrs_int(sl_op, Len(sl_in), pick)
          IN  /\ sl_op' = op
              /\ sl_cons' = Slice_requires_int(op, sl_in)
    /\ sl_done' = sl_done \cup {"requires"}
    /\ UNCHANGED <<sl_in, sl_out, sl_sel>>
    /\ UNCHANGED <<rgVars, skipVars, covVars, bcVars, czVars, chkVars, dcVars, exVars, cvVars, cliVars, lzVars, tvVars, rqVars, rsVars, brVars, plVars, gmVars, dtVars, pdVars>>

SliceTypeTransfer ==
    /\ "type_transfer" \notin sl_done
    /\ "torch" \notin sl_done
    /\ \E pick \in SlicePicks(Len(sl_in)) :
          LET op == Slice_get_attrs_int(sl_op, Len(sl_in), pick)
          IN  /\ sl_op' = op
              /\ sl_out' = Slice_type_transfer_int(op, sl_in)
    /\ sl_done' = sl_done \cup {"type_transfer"}
    /\ UNCHANGED <<sl_in, sl_cons, sl_sel>>
    /\ UNCHANGED <<rgVars, skipVars, covVars, bcVars, czVars, chkVars, dcVars, exVars, cvVars, cliVars, lzVars, tvVars, rqVars, rsVars, brVars, plVars, gmVars, dtVars, pdVars>>

SliceTorch ==
    /\ sl_done = {"requires", "type_transfer"}
    /\ sl_sel' = Slice_torch(sl_op, sl_in)
    /\ sl_done' = sl_done \cup {"torch"}
    /\ UNCHANGED <<sl_op, sl_in, sl_cons, sl_out>>
    /\ UNCHANGED <<rgVars, skipVars, covVars, bcVars, czVars, chkVars, dcVars, exVars, cvVars, cliVars, lzVars, tvVars, rqVars, rsVars, brVars, plVars, gmVars, dtVars, pdVars>>

NextSl == SliceRequires \/ SliceTypeTransfer \/ SliceTorch

SpecSl == InitSl /\ [][NextSl]_vars

SlDim == sl_in[sl_op.extra_attrs.axis + 1]

SlSatisfied == "requires" \in sl_done /\ \A i \in 1..Len(sl_cons) : sl_cons[i]

\* the least q with q * step >= n, for step >= 1
CeilDiv(n, step) ==
    CHOOSE q \in (0 - 2 * MaxSlDim - 4)..(2 * MaxSlDim + 4) :
        q * step >= n /\ (q - 1) * step < n

\* C22: Slice's inferred output shape equals the input shape on every axis
\* except the sliced one, where it equals ceil((end - start)/step) computed
\* as ((end - start) + (step - 1)) / step, with end replaced by the axis size
\* when end is the INT_MAX sentinel; the legality constraints are exactly
\* start in [0, dim-1], step in [1, dim], and, when end is not the sentinel,
\* end in [0, dim] and end > start.
C22_SliceShapeAndLegality ==
    /\ ("type_transfer" \in sl_done /\ sl_op.step >= 1) =>
          LET end == IF sl_op.end = IntMaxVal THEN SlDim ELSE sl_op.end.v
          IN  /\ sl_out.kind = "return"
              /\ Len(sl_out.shape) = Len(sl_in)
              /\ \A i \in 1..Len(sl_in) :
                    i # sl_op.extra_attrs.axis + 1 => sl_out.shape[i] = sl_in[i]
              /\ sl_out.shape[sl_op.extra_attrs.axis + 1]
                    = ((end - sl_op.start) + (sl_op.step - 1)) \div sl_op.step
              /\ sl_out.shape[sl_op.extra_attrs.axis + 1]
                    = CeilDiv(end - sl_op.start, sl_op.step)
    /\ "requires" \in sl_done =>
          ((\A i \in 1..Len(sl_cons) : sl_cons[i]) <=>
              /\ sl_op.start >= 0 /\ sl_op.start <= SlDim - 1
              /\ sl_op.step >= 1 /\ sl_op.step <= SlDim
              /\ sl_op.end # IntMaxVal =>
                    /\ sl_op.end.v >= 0 /\ sl_op.end.v <= SlDim
                    /\ sl_op.end.v > sl_op.start)

\* a legal slice to the sentinel with a step that does not divide the extent,
\* on the second axis
C22_Witness ==
    /\ sl_done = {"requires", "type_transfer"}
    /\ SlSatisfied
    /\ sl_op.end = IntMaxVal
    /\ sl_op.extra_attrs.axis = 1
    /\ sl_op.start = 0 /\ sl_op.step = 2 /\ SlDim = MaxSlDim

\* C29: for a concrete Slice whose start, end and step satisfy its legality
\* constraints on an axis of size dim, the slice performed by the execution
\* hook selects, for each of the regions 'left', 'mid' and 'right' (and for
\* the INT_MAX end sentinel), a number of elements along the sliced axis
\* equal to the output size computed by shape inference.
C29_TorchMatchesInference ==
    ("torch" \in sl_done /\ SlSatisfied) =>
        /\ sl_sel.kind = "return"
        /\ sl_out.kind = "return"
        /\ sl_sel.shape = sl_out.shape

\* the hook has sliced a 'left' slice that ends at the end of the axis
C29_Witness ==
    /\ "torch" \in sl_done
    /\ SlSatisfied
    /\ sl_op.extra_attrs.region = "left"
    /\ sl_op.end = IntEnd(SlDim)
    /\ sl_op.start = 1

----------------------------------------------------------------------------
(* reverse deduction of the input ranks, then inference on inputs of those  *)
(* ranks                                                                    *)

InitBr ==
    /\ br_pc = "call"
    /\ br_n \in 1..MaxBrN
    /\ br_t \in int_all
    /\ br_ranks = <<>>
    /\ br_shapes = <<>>
    /\ br_out = <<>>
    /\ IdleSkip /\ IdleCov /\ IdleBc /\ IdleCz /\ IdleChk /\ IdleEx /\ IdleDc /\ IdleCv /\ IdleCli /\ IdleLz /\ IdleTv /\ IdleRq /\ IdleRs /\ IdleSl /\ IdleGroup /\ IdlePl /\ IdleGm /\ IdleDt /\ IdlePd

DeductInpRanks ==
    /\ br_pc = "call"
    /\ \E draws \in [1..br_n -> 0..br_t], i \in 0..(br_n - 1) :
          br_ranks' = bcast_rand_ndims(br_n, br_t, draws, i)
    /\ br_pc' = "deduced"
    /\ UNCHANGED <<br_n, br_t, br_shapes, br_out>>
    /\ UNCHANGED <<rgVars, skipVars, covVars, bcVars, czVars, chkVars, dcVars, exVars, cvVars, cliVars, lzVars, tvVars, rqVars, rsVars, slVars, plVars, gmVars, dtVars, pdVars>>

BcastTypeTransfer ==
    /\ br_pc = "deduced"
    /\ \E ds \in [1..br_n -> 1..MaxBrDim] :
          /\ br_shapes' = [k \in 1..br_n |-> UniformShape(br_ranks[k], ds[k])]
          /\ br_out' = broadcast_shapes(br_shapes')
    /\ br_pc' = "inferred"
    /\ UNCHANGED <<br_n, br_t, br_ranks>>
    /\ UNCHANGED <<rgVars, skipVars, covVars, bcVars, czVars, chkVars, dcVars, exVars, cvVars, cliVars, lzVars, tvVars, rqVars, rsVars, slVars, plVars, gmVars, dtVars, pdVars>>

NextBr == DeductInpRanks \/ BcastTypeTransfer

SpecBr == InitBr /\ [][NextBr]_vars

\* C23: for every target rank t in 0..5 and every N >= 1,
\* bcast_rand_ndims(N, t) returns N ranks that all lie in [0, t] with at
\* least one equal to t, so the broadcast of shapes having the ranks deduced
\* by a broadcast operator's reverse deduction has exactly rank t.
C23_BcastRanks ==
    /\ br_pc \in {"deduced", "inferred"} =>
          /\ Len(br_ranks) = br_n
          /\ \A k \in 1..br_n : br_ranks[k] >= 0 /\ br_ranks[k] <= br_t
          /\ \E k \in 1..br_n : br_ranks[k] = br_t
    /\ br_pc = "inferred" => Len(br_out) = br_t

\* two inputs, the first of lower rank than the target, have been broadcast
C23_Witness ==
    /\ br_pc = "inferred"
    /\ br_n = 2
    /\ br_t = __MAX_RANK__
    /\ br_ranks[1] = 1
    /\ Len(br_out) = __MAX_RANK__

----------------------------------------------------------------------------
(* the two-operand variant against the general one, under SpecBc            *)

AllTrue(cons) == \A i \in 1..Len(cons) : cons[i]

\* C25: for every pair of concrete shapes with non-negative integer
\* dimensions and rank at most 5, the conjunction of the constraints returned
\* by broadcast_cons_binary has the same truth value as the conjunction of
\* the constraints returned by broadcast_cons for the same two shapes.
C25_BinarySameAsCons ==
    bc_pc = "done" => (AllTrue(bc_binary) <=> AllTrue(bc_cons))

----------------------------------------------------------------------------
(* one Ploter: add called for some runs, then plot                          *)

InitPl ==
    /\ pl_pc = "adding"
    /\ pl_cov_lim \in {NoLim} \cup {[given |-> TRUE, val |-> v] : v \in 0..1}
    /\ pl_cov_max = 0
    /\ pl_cov_min = 0
    /\ pl_lines = <<>>
    /\ pl_legends = <<>>
    /\ pl_bottom = 0
    /\ IdleSkip /\ IdleCov /\ IdleBc /\ IdleCz /\ IdleChk /\ IdleEx /\ IdleDc /\ IdleCv /\ IdleCli /\ IdleLz /\ IdleTv /\ IdleRq /\ IdleRs /\ IdleSl /\ IdleBr /\ IdleGroup /\ IdleGm /\ IdleDt /\ IdlePd

\* add(data, name): the assertion on the legends comes last, after the
\* lines are drawn and the extremes updated
PloterAdd ==
    /\ pl_pc = "adding"
    /\ Len(pl_lines) < MaxRuns
    /\ \E run \in PlRuns, named \in BOOLEAN :
          /\ pl_lines' = Append(pl_lines, run)
          /\ pl_cov_max' = Max2(pl_cov_max, Peak(run))
          /\ pl_cov_min' = Min2(pl_cov_min, Peak(run))
          /\ IF named
             THEN pl_legends' = Append(pl_legends, "name") /\ pl_pc' = pl_pc
             ELSE /\ pl_legends' = pl_legends
                  /\ pl_pc' = IF pl_legends = <<>> THEN pl_pc ELSE "AssertionError"
    /\ UNCHANGED <<pl_cov_lim, pl_bottom>>
    /\ UNCHANGED <<rgVars, skipVars, covVars, bcVars, czVars, chkVars, dcVars, exVars, cvVars, cliVars, lzVars, tvVars, rqVars, rsVars, slVars, brVars, gmVars, dtVars, pdVars>>

PloterPlot ==
    /\ pl_pc = "adding"
    /\ pl_bottom' = PlotBottom(pl_cov_lim, pl_cov_min)
    /\ pl_pc' = "plotted"
    /\ UNCHANGED <<pl_cov_lim, pl_cov_max, pl_cov_min, pl_lines, pl_legends>>
    /\ UNCHANGED <<rgVars, skipVars, covVars, bcVars, czVars, chkVars, dcVars, exVars, cvVars, cliVars, lzVars, tvVars, rqVars, rsVars, slVars, brVars, gmVars, dtVars, pdVars>>

NextPl == PloterAdd \/ PloterPlot

SpecPl == InitPl /\ [][NextPl]_vars

Peaks == {Peak(pl_lines[i]) : i \in 1..Len(pl_lines)}

\* C26: after any non-empty sequence of Ploter.add calls, cov_max equals the
\* largest and cov_min the smallest of the added runs' peak coverage values,
\* and when no explicit floor was given the y-axis floor that plot sets is
\* 0.75 times that tracked minimum.
C26_PloterExtremes ==
    Len(pl_lines) >= 1 =>
        /\ pl_cov_max = Maximum(Peaks)
        /\ pl_cov_min = Minimum(Peaks)
        /\ (pl_pc = "plotted" /\ ~pl_cov_lim.given) => pl_bottom = 3 * Minimum(Peaks)

----------------------------------------------------------------------------
(* one Gemm instance: checked_requires, possibly again, and the hook        *)

InitGm ==
    /\ gm_calls = 0
    /\ gm_in \in GmInputs
    /\ gm_extra = NoGemmAttrs
    /\ gm_first = NoGemmAttrs
    /\ gm_res = <<>>
    /\ gm_hook = ""
    /\ IdleSkip /\ IdleCov /\ IdleBc /\ IdleCz /\ IdleChk /\ IdleEx /\ IdleDc /\ IdleCv /\ IdleCli /\ IdleLz /\ IdleTv /\ IdleRq /\ IdleRs /\ IdleSl /\ IdleBr /\ IdlePl /\ IdleGroup /\ IdleDt /\ IdlePd

GemmCheckedRequires ==
    /\ gm_calls < MaxGmCalls
    /\ gm_hook = ""
    /\ \E alpha \in Uniform, beta \in Uniform, z3_cons_flops \in BOOLEAN :
          LET r == Gemm_requires(gm_extra, gm_in, alpha, beta, z3_cons_flops)
          IN  /\ gm_res' = [kind |-> r.kind, cons |-> r.cons]
              /\ gm_extra' = r.extra_attrs
              /\ gm_first' = IF gm_first.set THEN gm_first ELSE r.extra_attrs
    /\ gm_calls' = gm_calls + 1
    /\ UNCHANGED <<gm_in, gm_hook>>
    /\ UNCHANGED <<rgVars, skipVars, covVars, bcVars, czVars, chkVars, dcVars, exVars, cvVars, cliVars, lzVars, tvVars, rqVars, rsVars, slVars, brVars, plVars, dtVars, pdVars>>

\* Gemm.torch(): _set_or_get_extra_attrs() without a dtype
GemmTorch ==
    /\ gm_hook = ""
    /\ gm_hook' = IF gm_extra.set THEN "addmm" ELSE "AssertionError"
    /\ UNCHANGED <<gm_calls, gm_in, gm_extra, gm_first, gm_res>>
    /\ UNCHANGED <<rgVars, skipVars, covVars, bcVars, czVars, chkVars, dcVars, exVars, cvVars, cliVars, lzVars, tvVars, rqVars, rsVars, slVars, brVars, plVars, dtVars, pdVars>>

NextGm == GemmCheckedRequires \/ GemmTorch

SpecGm == InitGm /\ [][NextGm]_vars

InRange(k) == k >= 0 - 2 * GmDen /\ k <= 2 * GmDen

\* C24: after Gemm.checked_requires has resolved alpha and beta on inputs of
\* an integral dtype (int32 or int64), both attributes are integers in
\* [-2, 2]; on inputs of a floating dtype they are reals in [-2, 2]; in both
\* cases they are drawn once and not redrawn by later calls.
C24_GemmAlphaBeta ==
    gm_extra.set =>
        /\ InRange(gm_extra.alpha) /\ InRange(gm_extra.beta)
        /\ gm_in.dtype \in {"i32", "i64"} =>
              IsInteger(gm_extra.alpha) /\ IsInteger(gm_extra.beta)
        /\ gm_extra = gm_first

----------------------------------------------------------------------------
(* inference on inputs of a whitelisted dtype combination                   *)

InitDt ==
    /\ dt_pc = "call"
    /\ dt_op \in RegisteredOps
    /\ dt_in \in EntryOf(dt_op).in_dtypes
    /\ dt_out = ""
    /\ IdleSkip /\ IdleCov /\ IdleBc /\ IdleCz /\ IdleChk /\ IdleEx /\ IdleDc /\ IdleCv /\ IdleCli /\ IdleLz /\ IdleTv /\ IdleRq /\ IdleRs /\ IdleSl /\ IdleBr /\ IdlePl /\ IdleGm /\ IdleGroup /\ IdlePd

DtypeTransfer ==
    /\ dt_pc = "call"
    /\ dt_out' = TransferDtype(dt_op, dt_in)
    /\ dt_pc' = "done"
    /\ UNCHANGED <<dt_op, dt_in>>
    /\ UNCHANGED <<rgVars, skipVars, covVars, bcVars, czVars, chkVars, dcVars, exVars, cvVars, cliVars, lzVars, tvVars, rqVars, rsVars, slVars, brVars, plVars, gmVars, pdVars>>

NextDt == DtypeTransfer

SpecDt == InitDt /\ [][NextDt]_vars

\* C27: for every registered operator and every input dtype combination in
\* its in_dtypes, the output dtype produced by its shape/dtype inference on
\* inputs of those dtypes is a member of the operator's out_dtypes (for
\* example Abs, Clip, Slice, Transpose and Squeeze applied to an int32
\* input).
C27_OutputDtypeWhitelisted ==
    dt_pc = "done" => dt_out \in EntryOf(dt_op).out_dtypes

----------------------------------------------------------------------------
(* legality and inference of Pool2d, NCHWConv2d and Slice on an input whose *)
(* dimensions are all >= 1                                                  *)

InitPd ==
    /\ pd_pc = "call"
    /\ \/ \E c \in PdCalls : pd_cls = c.op.cls /\ pd_op = c.op /\ pd_in = c.shape
       \/ pd_cls = "Slice" /\ pd_op \in SlOps /\ pd_in \in SlShapes
    /\ pd_cons = <<>>
    /\ pd_out = <<>>
    /\ IdleSkip /\ IdleCov /\ IdleBc /\ IdleCz /\ IdleChk /\ IdleEx /\ IdleDc /\ IdleCv /\ IdleCli /\ IdleLz /\ IdleTv /\ IdleRq /\ IdleRs /\ IdleSl /\ IdleBr /\ IdlePl /\ IdleGm /\ IdleDt /\ IdleGroup

\* checked_requires, then checked_type_transfer; a stride that is not
\* positive leaves the quotient of the inferred size undefined
PdPoolConv ==
    /\ pd_pc = "call"
    /\ pd_cls \in {"Pool2d", "NCHWConv2d"}
    /\ \E z3_cons_flops \in BOOLEAN :
          pd_cons' = IF pd_cls = "Pool2d"
                     THEN Pool2d_requires(pd_op, pd_in, z3_cons_flops)
                     ELSE NCHWConv2d_requires(pd_op, pd_in, z3_cons_flops)
    /\ pd_out' = IF pd_op.stride < 1 THEN <<>> ELSE ConvTypeTransferOf(pd_op, pd_in)
    /\ pd_pc' = "done"
    /\ UNCHANGED <<pd_cls, pd_op, pd_in>>
    /\ UNCHANGED <<rgVars, skipVars, covVars, bcVars, czVars, chkVars, dcVars, exVars, cvVars, cliVars, lzVars, tvVars, rqVars, rsVars, slVars, brVars, plVars, gmVars, dtVars>>

PdSlice ==
    /\ pd_pc = "call"
    /\ pd_cls = "Slice"
    /\ \E pick \in SlicePicks(Len(pd_in)) :
          LET op == Slice_get_attrs_int(pd_op, Len(pd_in), pick)
          IN  /\ pd_op' = op
              /\ pd_cons' = Slice_requires_int(op, pd_in)
              /\ pd_out' = Slice_type_transfer_int(op, pd_in).shape
    /\ pd_pc' = "done"
    /\ UNCHANGED <<pd_cls, pd_in>>
    /\ UNCHANGED <<rgVars, skipVars, covVars, bcVars, czVars, chkVars, dcVars, exVars, cvVars, cliVars, lzVars, tvVars, rqVars, rsVars, slVars, brVars, plVars, gmVars, dtVars>>

NextPd == PdPoolConv \/ PdSlice

SpecPd == InitPd /\ [][NextPd]_vars

PdSatisfied == pd_pc = "done" /\ \A i \in 1..Len(pd_cons) : pd_cons[i]

\* C28: for Pool2d, NCHWConv2d and Slice applied to an input whose
\* dimensions are all >= 1, every integer assignment of the operator's
\* parameters that satisfies its legality constraints gives an inferred
\* output shape whose dimensions are all >= 1.
C28_OutputDimsPositive ==
    PdSatisfied =>
        /\ Len(pd_out) = Len(pd_in)
        /\ \A i \in 1..Len(pd_out) : pd_out[i] >= 1

\* a legal pooling whose window exactly covers the unpadded input, so that
\* the inferred size is 1
C28_Witness ==
    /\ PdSatisfied
    /\ pd_cls = "Pool2d"
    /\ pd_op.kernel_h_size = 2 /\ pd_in[3] = 2 /\ pd_op.padding = 0 /\ pd_op.stride = 2
    /\ pd_out[3] = 1

----------------------------------------------------------------------------
(* the dump of the (inputs, outputs) pair, under SpecCli                    *)

\* C30: the (inputs, outputs) pair is written to the --dump_raw path only
\* after the comparison step has passed or been skipped: in no run that ends
\* with a comparison mismatch, a failing model check or a raising backend is
\* the dump file written.
C30_DumpOnlyAfterCompare ==
    /\ Logged("dump") =>
          /\ cli_args.dump_raw
          /\ cli_exit = "exit0"
          /\ Logged("target") /\ Pos("target") < Pos("dump")
          /\ ~Logged("mismatch") /\ ~Logged("raise")
          /\ ~Logged("KeyError") /\ ~Logged("ValueError")
          /\ Logged("compare") <=> cli_oracle # NoOutputs
          /\ Logged("compare") => (Logged("passed") /\ Pos("passed") < Pos("dump"))
          /\ cli_oracle # NoOutputs =>
                (cli_this.v = cli_oracle.v /\ cli_this.invalid = cli_oracle.invalid)
    /\ (cli_exit = "raised" \/ cli_pc = "hung") => ~Logged("dump")

\* the pair has been dumped after a comparison against a reference backend
\* passed
C30_Witness ==
    /\ Logged("dump")
    /\ Logged("passed")
    /\ cli_args.cmp_with # "None"
    /\ cli_oracle.src = "reference"

====
